---- MODULE Spec2Model ----
(***************************************************************************)
(* A model of the SCP compiler front end: the DFA engine, the maximal      *)
(* munch lexer built on it, and the LL(1) and SLR(1) parsers with their    *)
(* parse-tree to AST transformations.                                      *)
(*                                                                         *)
(* A std::string is a sequence of one-character strings, so that lexemes,  *)
(* grammar symbol names and node values are values of one kind and can be  *)
(* compared as the code compares them.  Positions are 0-based as in the    *)
(* code: the character input_[p] is input_[p + 1] of the sequence.          *)
(***************************************************************************)
EXTENDS Integers, Sequences, FiniteSets, TLC

VARIABLES lexer, lastcall, ll1, slr, automaton

vars == <<lexer, lastcall, ll1, slr, automaton>>

Range(f) == {f[i] : i \in DOMAIN f}

Max(S) == CHOOSE x \in S : \A y \in S : y <= x

Min(S) == CHOOSE x \in S : \A y \in S : x <= y

(***************************************************************************)
(* constant/alphabet.h                                                     *)
(***************************************************************************)
DIGIT_ALPHABET == <<"0", "1", "2", "3", "4", "5", "6", "7", "8", "9">>

IDENTIFIER_ALPHABET ==
    <<"0", "1", "2", "3", "4", "5", "6", "7", "8", "9",
      "a", "b", "c", "d", "e", "f", "g", "h", "i", "j", "k", "l", "m",
      "n", "o", "p", "q", "r", "s", "t", "u", "v", "w", "x", "y", "z",
      "A", "B", "C", "D", "E", "F", "G", "H", "I", "J", "K", "L", "M",
      "N", "O", "P", "Q", "R", "S", "T", "U", "V", "W", "X", "Y", "Z", "_">>

PLUS_ALPHABET == <<"+">>

TIMES_ALPHABET == <<"*">>

LEFT_PAREN_ALPHABET == <<"(">>

RIGHT_PAREN_ALPHABET == <<")">>

ASSIGN_ALPHABET == <<"<", "-">>

SEMICOLON_ALPHABET == <<";">>

\* The header under src/ does not define STRING_ALPHABET, which lexer.cpp
\* uses: the body characters of a literal are the identifier characters,
\* the space and the tab, and the quote delimits it.
STRING_ALPHABET == IDENTIFIER_ALPHABET \o <<" ", "\t", "\"">>

\* What std::string::operator[] returns at index size().
NUL == "\\0"

DigitChars == Range(DIGIT_ALPHABET)

\* std::isalpha in the "C" locale.
AlphaChars == Range(IDENTIFIER_ALPHABET) \ (DigitChars \cup {"_"})

(***************************************************************************)
(* lexer/dfa.h, lexer/dfa.cpp: DeterministicFiniteAutomata                 *)
(***************************************************************************)

\* Compress: the rows of the table, equal rows shared.  The released table
\* is a pool of distinct rows and, per state, the index of its row.
RECURSIVE CompressFrom(_, _, _)
CompressFrom(input, i, acc) ==
    IF i >= Len(input) THEN acc
    ELSE LET row == input[i + 1]
             hit == {k \in 1..Len(acc.pool) : acc.pool[k] = row}
         IN  IF hit # {}
             THEN CompressFrom(input, i + 1,
                      [acc EXCEPT !.ptr = Append(acc.ptr, Min(hit))])
             ELSE CompressFrom(input, i + 1,
                      [pool |-> Append(acc.pool, row),
                       ptr  |-> Append(acc.ptr, Len(acc.pool) + 1)])

\* Compress as it would be if every state shared the row of the first.
CompressAllShared(input) ==
    [pool |-> IF input = <<>> THEN <<>> ELSE <<input[1]>>,
     ptr  |-> [i \in 1..Len(input) |-> 1]]

Compress(input) == CompressFrom(input, 0, [pool |-> <<>>, ptr |-> <<>>])

\* The constructor.  states_transition_ is a vector of num_states rows of
\* alphabet_size_ entries, all -1; a later occurrence of a character in
\* the alphabet string overwrites the index of an earlier one.
DeterministicFiniteAutomata(num_states, alphabet, token_class) ==
    [token_class_ |-> token_class,
     final_states_ |-> {},
     current_state_ |-> 0,
     num_states_ |-> num_states,
     alphabet_size_ |-> Len(alphabet),
     states_transition_released_ |-> [pool |-> <<>>, ptr |-> <<>>],
     states_transition_ |->
         [s \in 1..num_states |-> [k \in 1..Len(alphabet) |-> -1]],
     alphabet_ |->
         [c \in Range(alphabet) |->
             Max({i \in 1..Len(alphabet) : alphabet[i] = c}) - 1],
     released_ |-> FALSE]

Release(d) ==
    [d EXCEPT !.released_ = TRUE,
              !.states_transition_released_ = Compress(d.states_transition_)]

\* The checks of AddTransition as they would be if a released automaton
\* could still be changed.
AddTransitionOkAfterRelease(d, from_state, symbol, to_state) ==
    /\ ~(from_state < 0 \/ from_state >= d.num_states_
           \/ to_state < 0 \/ to_state >= d.num_states_)
    /\ symbol \in DOMAIN d.alphabet_

AddTransitionOk(d, from_state, symbol, to_state) ==
    /\ ~d.released_
    /\ ~(from_state < 0 \/ from_state >= d.num_states_
           \/ to_state < 0 \/ to_state >= d.num_states_)
    /\ symbol \in DOMAIN d.alphabet_

AddTransition(d, from_state, symbol, to_state) ==
    IF AddTransitionOk(d, from_state, symbol, to_state)
    THEN [d EXCEPT !.states_transition_[from_state + 1][d.alphabet_[symbol] + 1]
                       = to_state]
    ELSE d

SetFinalStateOk(d, state) ==
    /\ ~d.released_
    /\ ~(state < 0 \/ state >= d.num_states_)

SetFinalState(d, state) ==
    IF SetFinalStateOk(d, state)
    THEN [d EXCEPT !.final_states_ = @ \cup {state}]
    ELSE d

\* Init as it would be if a dead automaton stayed dead.
DfaInitUnlessDead(d) ==
    IF d.current_state_ = -1 THEN d ELSE [d EXCEPT !.current_state_ = 0]

DfaInit(d) == [d EXCEPT !.current_state_ = 0]

IsAccepted(d) == d.current_state_ \in d.final_states_

\* Evaluate as it would be if the alphabet were looked up before the phase:
\* an automaton that is not released dies on a symbol outside its alphabet.
EvaluateAlphabetFirst(d, byte) ==
    IF byte \notin DOMAIN d.alphabet_
    THEN [dfa |-> [d EXCEPT !.current_state_ = -1], ret |-> FALSE, ub |-> FALSE]
    ELSE IF ~d.released_ THEN [dfa |-> d, ret |-> FALSE, ub |-> FALSE]
    ELSE IF d.current_state_ + 1 \notin DOMAIN d.states_transition_released_.ptr
    THEN [dfa |-> d, ret |-> FALSE, ub |-> TRUE]
    ELSE LET rel == d.states_transition_released_
             row == rel.pool[rel.ptr[d.current_state_ + 1]]
             nxt == row[d.alphabet_[byte] + 1]
         IN  [dfa |-> [d EXCEPT !.current_state_ = nxt],
              ret |-> nxt # -1, ub |-> FALSE]

\* Evaluate: the automaton afterwards and the value returned.  Indexing the
\* released table with a current state that is no row of it (the dead state
\* -1) is an out-of-bounds vector access: ub says so.
Evaluate(d, byte) ==
    IF ~d.released_ THEN [dfa |-> d, ret |-> FALSE, ub |-> FALSE]
    ELSE IF byte \notin DOMAIN d.alphabet_
    THEN [dfa |-> [d EXCEPT !.current_state_ = -1], ret |-> FALSE, ub |-> FALSE]
    ELSE IF d.current_state_ + 1 \notin DOMAIN d.states_transition_released_.ptr
    THEN [dfa |-> d, ret |-> FALSE, ub |-> TRUE]
    ELSE LET rel == d.states_transition_released_
             row == rel.pool[rel.ptr[d.current_state_ + 1]]
             nxt == row[d.alphabet_[byte] + 1]
         IN  [dfa |-> [d EXCEPT !.current_state_ = nxt],
              ret |-> nxt # -1, ub |-> FALSE]

\* A run of AddTransition calls, in order: an entry of the table holds the
\* target of the last accepted call that wrote it.
AddTransitions(d, calls) ==
    LET ok(j)  == AddTransitionOk(d, calls[j][1], calls[j][2], calls[j][3])
        hits(s, k) == {j \in 1..Len(calls) :
                          /\ ok(j)
                          /\ calls[j][1] + 1 = s
                          /\ d.alphabet_[calls[j][2]] + 1 = k}
    IN  [d EXCEPT !.states_transition_ =
            [s \in DOMAIN @ |-> [k \in DOMAIN @[s] |->
                IF hits(s, k) = {} THEN @[s][k]
                ELSE calls[Max(hits(s, k))][3]]]]

(***************************************************************************)
(* lexer/lexer.cpp: the automata of the lexer                              *)
(***************************************************************************)
LowerCase == SubSeq(IDENTIFIER_ALPHABET, 11, 36)

UpperCase == SubSeq(IDENTIFIER_ALPHABET, 37, 62)

SetupNumberDFA(d) ==
    SetFinalState(
        AddTransitions(d,
            [i \in 1..Len(DIGIT_ALPHABET) |-> <<0, DIGIT_ALPHABET[i], 1>>]
            \o [i \in 1..Len(DIGIT_ALPHABET) |-> <<1, DIGIT_ALPHABET[i], 1>>]),
        1)

SetupIdentifierDFA(d) ==
    SetFinalState(
        AddTransitions(d,
            [i \in 1..Len(LowerCase) |-> <<0, LowerCase[i], 1>>]
            \o [i \in 1..Len(UpperCase) |-> <<0, UpperCase[i], 1>>]
            \o << <<0, "_", 1>> >>
            \o [i \in 1..Len(IDENTIFIER_ALPHABET) |->
                   <<1, IDENTIFIER_ALPHABET[i], 1>>]),
        1)

SetupPlusDFA(d) == SetFinalState(AddTransition(d, 0, "+", 1), 1)

SetupLeftParenDFA(d) == SetFinalState(AddTransition(d, 0, "(", 1), 1)

SetupRightParenDFA(d) == SetFinalState(AddTransition(d, 0, ")", 1), 1)

SetupTimesDFA(d) == SetFinalState(AddTransition(d, 0, "*", 1), 1)

SetupAssignDFA(d) ==
    SetFinalState(AddTransition(AddTransition(d, 0, "<", 1), 1, "-", 2), 2)

SetupSemicolonDFA(d) == SetFinalState(AddTransition(d, 0, ";", 1), 1)

StringBody ==
    SelectSeq(STRING_ALPHABET, LAMBDA c : c # "\"")

SetupStringDFA(d) ==
    SetFinalState(
        AddTransitions(d,
            << <<0, "\"", 1>>, <<1, "\"", 2>> >>
            \o [i \in 1..Len(StringBody) |-> <<1, StringBody[i], 1>>]),
        2)

number_dfa_ ==
    Release(SetupNumberDFA(
        DeterministicFiniteAutomata(2, DIGIT_ALPHABET, "NUMBER")))

identifier_dfa_ ==
    Release(SetupIdentifierDFA(
        DeterministicFiniteAutomata(2, IDENTIFIER_ALPHABET, "IDENTIFIER")))

plus_dfa_ ==
    Release(SetupPlusDFA(
        DeterministicFiniteAutomata(2, PLUS_ALPHABET, "PLUS")))

left_paren_dfa_ ==
    Release(SetupLeftParenDFA(
        DeterministicFiniteAutomata(2, LEFT_PAREN_ALPHABET, "LEFT_PAREN")))

right_paren_dfa_ ==
    Release(SetupRightParenDFA(
        DeterministicFiniteAutomata(2, RIGHT_PAREN_ALPHABET, "RIGHT_PAREN")))

times_dfa_ ==
    Release(SetupTimesDFA(
        DeterministicFiniteAutomata(2, TIMES_ALPHABET, "TIMES")))

assign_dfa_ ==
    Release(SetupAssignDFA(
        DeterministicFiniteAutomata(3, ASSIGN_ALPHABET, "ASSIGN")))

semicolon_dfa_ ==
    Release(SetupSemicolonDFA(
        DeterministicFiniteAutomata(2, SEMICOLON_ALPHABET, "SEMICOLON")))

string_dfa_ ==
    Release(SetupStringDFA(
        DeterministicFiniteAutomata(3, STRING_ALPHABET, "STRING")))

\* dfa_list_, in the order of the push_back calls; index 0 is its first.
dfa_list_ ==
    <<number_dfa_, identifier_dfa_, times_dfa_, plus_dfa_, left_paren_dfa_,
      right_paren_dfa_, assign_dfa_, semicolon_dfa_, string_dfa_>>

DfaIndex == 0..(Len(dfa_list_) - 1)

\* The automaton at index i of dfa_list_, in current state cs.  The tables
\* of a released automaton never change, so a Lexer carries only the
\* current state of each automaton.
DfaAt(i, cs) == [dfa_list_[i + 1] EXCEPT !.current_state_ = cs]

(***************************************************************************)
(* lexer/lexer.cpp: Lexer                                                  *)
(***************************************************************************)
\* IsWhitespace as it would be without the carriage return.
IsWhitespaceNoCarriageReturn(c) == c \in {" ", "\t", "\n"}

IsWhitespace(c) == c \in {" ", "\t", "\n", "\r"}

\* input_[p]: defined for p <= size(), undefined beyond.
CharAt(input, p) == IF p < Len(input) THEN input[p + 1] ELSE NUL

\* The Lexer after its constructor: the automata built and released, the
\* survival list resized (all false), no input.
NewLexer ==
    [input_ |-> <<>>,
     current_pos_ |-> 0,
     current_line_ |-> 1,
     current_column_ |-> 1,
     dfa_state_ |-> [i \in DfaIndex |-> 0],
     survival_list_ |-> [i \in DfaIndex |-> FALSE]]

SetInput(lx, input) ==
    [lx EXCEPT !.input_ = input, !.current_pos_ = 0,
               !.current_line_ = 1, !.current_column_ = 1]

\* Reset as it would be if it rewound the position and kept the line and
\* the column.
ResetPositionOnly(lx) == [lx EXCEPT !.current_pos_ = 0]

Reset(lx) ==
    [lx EXCEPT !.current_pos_ = 0, !.current_line_ = 1, !.current_column_ = 1]

RECURSIVE SkipFrom(_, _)
SkipFrom(input, pos) ==
    IF pos < Len(input) /\ IsWhitespace(input[pos + 1])
    THEN SkipFrom(input, pos + 1)
    ELSE pos

\* HasNext as it would be if it did not look past the whitespace.
HasNextUnskipped(lx) == lx.current_pos_ < Len(lx.input_)

HasNext(lx) == SkipFrom(lx.input_, lx.current_pos_) < Len(lx.input_)

\* The line and column bookkeeping done for one consumed character.
Advance(lx, c) ==
    IF c = "\n"
    THEN [lx EXCEPT !.current_line_ = @ + 1, !.current_column_ = 1,
                    !.current_pos_ = @ + 1]
    ELSE [lx EXCEPT !.current_column_ = @ + 1, !.current_pos_ = @ + 1]

RECURSIVE SkipWhitespace(_)
SkipWhitespace(lx) ==
    IF lx.current_pos_ < Len(lx.input_)
       /\ IsWhitespace(lx.input_[lx.current_pos_ + 1])
    THEN SkipWhitespace(Advance(lx, lx.input_[lx.current_pos_ + 1]))
    ELSE lx

\* The for loop over dfa_list_ for one character, from index i on.  sc is
\* the scan: the lexer and the locals last_accepted_pos, last_accepted_dfa
\* and have_survival of GetNextToken.
RECURSIVE EvaluateAll(_, _, _)
\* EvaluateAll as it would be if the first acceptance were kept instead of
\* the last.
EvaluateAllFirstMatch(sc, byte, i) ==
    LET Body(r) ==
            IF ~r.ret
            THEN [sc EXCEPT !.lx.dfa_state_[i] = r.dfa.current_state_,
                            !.lx.survival_list_[i] = FALSE]
            ELSE IF IsAccepted(r.dfa) /\ sc.last_accepted_dfa = -1
            THEN [sc EXCEPT !.lx.dfa_state_[i] = r.dfa.current_state_,
                            !.have_survival = TRUE,
                            !.last_accepted_pos = sc.lx.current_pos_ + 1,
                            !.last_accepted_dfa = i]
            ELSE [sc EXCEPT !.lx.dfa_state_[i] = r.dfa.current_state_,
                            !.have_survival = TRUE]
    IN  IF i >= Len(dfa_list_) THEN sc
        ELSE EvaluateAll(
                 IF ~sc.lx.survival_list_[i] THEN sc
                 ELSE Body(Evaluate(DfaAt(i, sc.lx.dfa_state_[i]), byte)),
                 byte, i + 1)

EvaluateAll(sc, byte, i) ==
    LET Body(r) ==
            IF ~r.ret
            THEN [sc EXCEPT !.lx.dfa_state_[i] = r.dfa.current_state_,
                            !.lx.survival_list_[i] = FALSE]
            ELSE IF IsAccepted(r.dfa)
            THEN [sc EXCEPT !.lx.dfa_state_[i] = r.dfa.current_state_,
                            !.have_survival = TRUE,
                            !.last_accepted_pos = sc.lx.current_pos_ + 1,
                            !.last_accepted_dfa = i]
            ELSE [sc EXCEPT !.lx.dfa_state_[i] = r.dfa.current_state_,
                            !.have_survival = TRUE]
    IN  IF i >= Len(dfa_list_) THEN sc
        ELSE EvaluateAll(
                 IF ~sc.lx.survival_list_[i] THEN sc
                 ELSE Body(Evaluate(DfaAt(i, sc.lx.dfa_state_[i]), byte)),
                 byte, i + 1)

\* The while loop of GetNextToken as it would be if whitespace ended the
\* attempt inside a string literal too.
RECURSIVE ScanLoopBreakAtWhitespace(_)
ScanLoopBreakAtWhitespace(sc) ==
    LET c == sc.lx.input_[sc.lx.current_pos_ + 1]
        Consumed(s1) == [s1 EXCEPT !.lx = Advance(s1.lx, c)]
    IN  IF ~(sc.lx.current_pos_ < Len(sc.lx.input_) /\ sc.have_survival)
        THEN sc
        ELSE IF IsWhitespace(c) THEN sc
        ELSE ScanLoopBreakAtWhitespace(Consumed(
                 EvaluateAll([sc EXCEPT !.have_survival = FALSE], c, 0)))

\* The while loop of GetNextToken that consumes characters.
RECURSIVE ScanLoop(_)
ScanLoop(sc) ==
    LET c == sc.lx.input_[sc.lx.current_pos_ + 1]
        Consumed(s1) == [s1 EXCEPT !.lx = Advance(s1.lx, c)]
    IN  IF ~(sc.lx.current_pos_ < Len(sc.lx.input_) /\ sc.have_survival)
        THEN sc
        ELSE IF IsWhitespace(c) /\ ~sc.lx.survival_list_[8] THEN sc
        ELSE ScanLoop(Consumed(
                 EvaluateAll([sc EXCEPT !.have_survival = FALSE], c, 0)))

\* The value of a Token: its type, its lexeme, its line and its column.
Token(type, value, line_pos, column_pos) ==
    [type_ |-> type, value_ |-> value, line |-> line_pos, column |-> column_pos]

NoToken == Token("NONE", <<>>, 0, 0)

\* GetNextToken as it would be if a failed attempt went back to where it
\* started instead of skipping the problematic character.
GetNextTokenNoSkip(lx0) ==
    LET Scanned(lx1, sc) ==
            IF sc.last_accepted_dfa # -1
            THEN [lexer |-> [sc.lx EXCEPT
                                !.current_pos_ = sc.last_accepted_pos],
                  ret |-> TRUE,
                  token |-> Token(DfaAt(sc.last_accepted_dfa, 0).token_class_,
                                  SubSeq(lx1.input_, lx1.current_pos_ + 1,
                                         sc.last_accepted_pos),
                                  lx1.current_line_, lx1.current_column_)]
            ELSE [lexer |-> [sc.lx EXCEPT !.current_pos_ = lx1.current_pos_],
                  ret |-> FALSE, token |-> NoToken]
        Skipped(lx1) ==
            IF lx1.current_pos_ >= Len(lx1.input_)
            THEN [lexer |-> lx1, ret |-> FALSE, token |-> NoToken]
            ELSE Scanned(lx1,
                     ScanLoop([lx |-> [lx1 EXCEPT
                                   !.dfa_state_ = [i \in DOMAIN @ |-> 0],
                                   !.survival_list_ = [i \in DOMAIN @ |-> TRUE]],
                               last_accepted_pos |-> lx1.current_pos_,
                               last_accepted_dfa |-> -1,
                               have_survival |-> TRUE]))
    IN  Skipped(SkipWhitespace(lx0))

\* GetNextToken: the lexer afterwards, the value returned and the token.
\* lx1 is the lexer once the whitespace is skipped, token_start its
\* position, sc the scan when the loop over the characters ends.
GetNextToken(lx0) ==
    LET Scanned(lx1, sc) ==
            IF sc.last_accepted_dfa # -1
            THEN [lexer |-> [sc.lx EXCEPT
                                !.current_pos_ = sc.last_accepted_pos],
                  ret |-> TRUE,
                  token |-> Token(DfaAt(sc.last_accepted_dfa, 0).token_class_,
                                  SubSeq(lx1.input_, lx1.current_pos_ + 1,
                                         sc.last_accepted_pos),
                                  lx1.current_line_, lx1.current_column_)]
            ELSE [lexer |-> Advance(sc.lx,
                                    CharAt(sc.lx.input_, sc.lx.current_pos_)),
                  ret |-> FALSE, token |-> NoToken]
        Skipped(lx1) ==
            IF lx1.current_pos_ >= Len(lx1.input_)
            THEN [lexer |-> lx1, ret |-> FALSE, token |-> NoToken]
            ELSE Scanned(lx1,
                     ScanLoop([lx |-> [lx1 EXCEPT
                                   !.dfa_state_ = [i \in DOMAIN @ |-> 0],
                                   !.survival_list_ = [i \in DOMAIN @ |-> TRUE]],
                               last_accepted_pos |-> lx1.current_pos_,
                               last_accepted_dfa |-> -1,
                               have_survival |-> TRUE]))
    IN  Skipped(SkipWhitespace(lx0))

\* Next: an optional token; has_value is false for std::nullopt.
LexNext(lx) ==
    LET Optional(g) ==
            [lexer |-> g.lexer, has_value |-> g.ret, token |-> g.token]
    IN  Optional(GetNextToken(lx))

\* Tokenize: SetInput, then Next until it returns std::nullopt.
RECURSIVE TokenizeLoop(_, _)
TokenizeLoop(lx, tokens) ==
    LET Loop(n) ==
            IF n.has_value
            THEN TokenizeLoop(n.lexer, Append(tokens, n.token))
            ELSE [lexer |-> n.lexer, tokens |-> tokens]
    IN  Loop(LexNext(lx))

Tokenize(lx, input) == TokenizeLoop(SetInput(lx, input), <<>>)

(***************************************************************************)
(* The texts given to the lexer and to the parsers                         *)
(***************************************************************************)

\* Longest text made of any characters of FreeChars.
MaxFree == 3

\* Longest text made of whitespace characters only.
MaxWs == 2

\* Most binary operators in a generated expression.
MaxOps == 2

\* Most statements in a generated program.
MaxStmts == 3

FreeChars == {"a", "1", "_", "<", "-", " ", "\"", "#"}

WsChars == {" ", "\t", "\n", "\r"}

SeqsUpTo(S, n) == UNION {[1..k -> S] : k \in 0..n}

FreeTexts == SeqsUpTo(FreeChars, MaxFree)

WsTexts == SeqsUpTo(WsChars, MaxWs)

IsWsText(t) == \A i \in 1..Len(t) : t[i] \in WsChars

Operands == {<<"b">>, <<"1">>}

Operators == {<<"+">>, <<"*">>}

Parenthesized(S) == {<<"(">> \o e \o <<")">> : e \in S}

\* The expressions with exactly n binary operators; an operand that has an
\* operator of its own stands bare or in parentheses.
RECURSIVE Exprs(_)
Exprs(n) ==
    IF n = 0 THEN Operands
    ELSE UNION {
           LET L == IF i = 0 THEN Exprs(0)
                    ELSE Exprs(i) \cup Parenthesized(Exprs(i))
               R == IF n - 1 - i = 0 THEN Exprs(0)
                    ELSE Exprs(n - 1 - i) \cup Parenthesized(Exprs(n - 1 - i))
           IN  {l \o op \o r : l \in L, op \in Operators, r \in R}
           : i \in 0..(n - 1)}

\* Expressions around an identifier that begins with an underscore, one
\* that spells a grammar symbol, and operands in redundant parentheses.
OddOperands == {<<"_", "x">>, <<"T", "e", "r", "m">>, <<"(", "_", "x", ")">>,
                <<"(", "b", ")">>, <<"(", "(", "1", ")", ")">>}

OddExprs ==
    OddOperands
    \cup {l \o op \o r : l \in OddOperands, op \in Operators, r \in Operands}
    \cup {l \o op \o r : l \in Operands, op \in Operators, r \in OddOperands}
    \cup {<<"b">> \o o1 \o <<"_", "x">> \o o2 \o <<"1">> :
              o1 \in Operators, o2 \in Operators}
    \cup {<<"_", "x">> \o o1 \o <<"b">> \o o2 \o <<"1">> :
              o1 \in Operators, o2 \in Operators}

GenExprs == UNION {Exprs(n) : n \in 0..MaxOps} \cup OddExprs

Stmt(target, e) == target \o <<"<", "-">> \o e \o <<";">>

Targets == {<<"a">>, <<"b">>, <<"_", "c">>}

SimpleStmts == {Stmt(t, <<"1">>) : t \in Targets}

RECURSIVE Join(_)
Join(parts) == IF parts = <<>> THEN <<>> ELSE Head(parts) \o Join(Tail(parts))

\* One statement with a generated expression, or up to MaxStmts simple
\* statements.
GenPrograms ==
    {Stmt(<<"a">>, e) : e \in GenExprs}
    \cup {Join(ss) : ss \in SeqsUpTo(SimpleStmts, MaxStmts)}

\* A program with one piece too many, or one character too few.
Garbage == {<<"+">>, <<"*">>, <<"1">>, <<"a">>, <<"(">>, <<")">>, <<";">>,
            <<"<", "-">>, <<"#">>, <<" ">>}

BasePrograms == {Stmt(<<"a">>, <<"1">>), Stmt(<<"a">>, <<"b", "+", "1">>),
                 Stmt(<<"a">>, <<"(", "b", ")", "*", "1">>)}

Without(t, i) == SubSeq(t, 1, i - 1) \o SubSeq(t, i + 1, Len(t))

NearPrograms ==
    {p \o g : p \in BasePrograms, g \in Garbage}
    \cup {g \o p : p \in BasePrograms, g \in Garbage}
    \cup {p \o g \o p : p \in BasePrograms, g \in Garbage}
    \cup UNION {{Without(p, i) : i \in 1..Len(p)} : p \in BasePrograms}

\* The texts of the tests and of the specification's examples.
Examples ==
    {<<"a", " ", "<", "-", " ", "b", " ", "+", " ", "c", " ", "*", " ", "d", ";">>,
     <<"x", " ", "<", "-", " ", "a", " ", "+", " ", "b", " ", "+", " ", "c", ";">>,
     <<"x", " ", "<", "-", " ", "a", " ", "*", " ", "b", " ", "*", " ", "c", ";">>,
     <<"x", " ", "<", "-", " ", "(", "a", " ", "+", " ", "b", ")", " ", "*", " ", "c", ";">>,
     <<"a", " ", "<", "-", " ", "1", ";", " ", "b", " ", "<", "-", " ", "2", ";", " ",
       "c", " ", "<", "-", " ", "3", ";">>,
     <<"a", " ", "<", "-">>,
     <<"a", " ", "<", "-", " ", ";">>,
     <<"<", "-", " ", "1", ";">>,
     <<"a", " ", "<", " ", "1", ";">>,
     <<"x", " ", "<", "-", " ", "(", "(", "a", " ", "+", " ", "b", ")", ")", " ", "*", " ", "c", ";">>,
     <<"x", "<", "-", "a", "*", "(", "b", "+", "c", "*", "(", "d", "+", "e", ")", ")", ";">>,
     <<"m", "s", "g", " ", "<", "-", " ", "\"", "h", "i", " ", "y", "o", "\"", ";">>,
     <<"m", "s", "g", " ", "<", "-", " ", "\"", "h", "e", "l", "l", "o", " ",
       "w", "o", "r", "l", "d", "\"", ";">>,
     <<"\"", "a", "\t", "b", "\"", " ", "c">>,
     <<"\"", "a", " ", "b">>,
     <<"a", "b", "c", " ", "1", "2", "3">>,
     <<"1", "2", "3", " ", "a", "b", "c", " ", "_", "v", "1", "#", "x", " ", "@", "v", "a", "r">>,
     <<"a", "<", "-", "E", "x", "p", "r", "e", "s", "s", "i", "o", "n", ";">>,
     <<"a", "\r", "\n", "<", "-", "\t", "1", "\n", ";", "\n">>}

Texts == FreeTexts \cup WsTexts \cup GenPrograms \cup NearPrograms \cup Examples

\* The texts given to a lexer used on its own.
LexerTexts == FreeTexts \cup WsTexts \cup NearPrograms \cup Examples

(***************************************************************************)
(* A Lexer used through its public interface                               *)
(***************************************************************************)

\* The last call made on the lexer: the lexer before it and what it
\* returned.
Call(op, pre, ret, token, tokens) ==
    [op |-> op, pre |-> pre, ret |-> ret, token |-> token, tokens |-> tokens]

NoCall == Call("new", NewLexer, FALSE, NoToken, <<>>)

NoParser == [pc |-> "off"]

\* No automaton is used on its own.
NoAutomaton == [released_ |-> FALSE]

InitLexer ==
    /\ lexer = NewLexer
    /\ lastcall = NoCall
    /\ ll1 = NoParser
    /\ slr = NoParser
    /\ automaton = NoAutomaton

\* lexer.SetInput(t), the first call on a new lexer.
LexerSetInput ==
    /\ lastcall.op = "new"
    /\ \E t \in LexerTexts :
         /\ lexer' = SetInput(lexer, t)
         /\ lastcall' = Call("SetInput", lexer, FALSE, NoToken, <<>>)
    /\ UNCHANGED <<ll1, slr, automaton>>

\* lexer.Next()
LexerNext ==
    /\ lastcall.op # "new"
    /\ LET n == LexNext(lexer)
       IN  /\ lexer' = n.lexer
           /\ lastcall' = Call("Next", lexer, n.has_value, n.token, <<>>)
    /\ UNCHANGED <<ll1, slr, automaton>>

\* lexer.HasNext() as it would be if it consumed the whitespace it looks
\* past.
LexerHasNextConsuming ==
    /\ lastcall.op # "new"
    /\ lexer' = SkipWhitespace(lexer)
    /\ lastcall' = Call("HasNext", lexer, HasNext(lexer), NoToken, <<>>)
    /\ UNCHANGED <<ll1, slr, automaton>>

\* lexer.HasNext()
LexerHasNext ==
    /\ lastcall.op # "new"
    /\ lastcall' = Call("HasNext", lexer, HasNext(lexer), NoToken, <<>>)
    /\ UNCHANGED <<lexer, ll1, slr, automaton>>

\* lexer.Reset()
LexerReset ==
    /\ lastcall.op # "new"
    /\ lexer' = Reset(lexer)
    /\ lastcall' = Call("Reset", lexer, FALSE, NoToken, <<>>)
    /\ UNCHANGED <<ll1, slr, automaton>>

\* lexer.Tokenize(t): of any text on a new lexer, of the same text again
\* afterwards.
LexerTokenize ==
    /\ \E t \in (IF lastcall.op = "new" THEN LexerTexts ELSE {lexer.input_}) :
         LET r == Tokenize(lexer, t)
         IN  /\ lexer' = r.lexer
             /\ lastcall' = Call("Tokenize", lexer, FALSE, NoToken, r.tokens)
    /\ UNCHANGED <<ll1, slr, automaton>>

NextLexer ==
    \/ LexerSetInput
    \/ LexerNext
    \/ LexerHasNext
    \/ LexerReset
    \/ LexerTokenize

SpecLexer == InitLexer /\ [][NextLexer]_vars

(***************************************************************************)
(* Parse trees and abstract syntax trees                                   *)
(***************************************************************************)

\* The strings the parsers use as grammar symbols, spelled as the tables
\* spell them; epsilon is the two-byte string of the Greek letter.
Sym ==
    [Program |-> <<"P", "r", "o", "g", "r", "a", "m">>,
     StatementList |-> <<"S", "t", "a", "t", "e", "m", "e", "n", "t", "L", "i", "s", "t">>,
     Statement |-> <<"S", "t", "a", "t", "e", "m", "e", "n", "t">>,
     Expression |-> <<"E", "x", "p", "r", "e", "s", "s", "i", "o", "n">>,
     Term |-> <<"T", "e", "r", "m">>,
     Factor |-> <<"F", "a", "c", "t", "o", "r">>,
     identifier |-> <<"i", "d", "e", "n", "t", "i", "f", "i", "e", "r">>,
     number |-> <<"n", "u", "m", "b", "e", "r">>,
     left_paren |-> <<"l", "e", "f", "t", "_", "p", "a", "r", "e", "n">>,
     right_paren |-> <<"r", "i", "g", "h", "t", "_", "p", "a", "r", "e", "n">>,
     plus |-> <<"p", "l", "u", "s">>,
     times |-> <<"t", "i", "m", "e", "s">>,
     assign |-> <<"a", "s", "s", "i", "g", "n">>,
     semicolon |-> <<"s", "e", "m", "i", "c", "o", "l", "o", "n">>,
     ExpressionPrime |-> <<"E", "x", "p", "r", "e", "s", "s", "i", "o", "n", "'">>,
     TermPrime |-> <<"T", "e", "r", "m", "'">>,
     epsilon |-> <<"\\316", "\\265">>,
     epsilon_word |-> <<"e", "p", "s", "i", "l", "o", "n">>]

ROOT_NODE_VALUE == <<"-">>

END_NODE_VALUE == <<"$">>

\* core::TreeNode objects live in a heap: a sequence of nodes, a node's
\* address being its index; 0 is the null pointer.
TreeNode(v) == [val_ |-> v, children_ |-> <<>>]

\* make_shared<TreeNode>(v): the heap afterwards; the new node is the last.
NewTreeNode(tree, v) == Append(tree, TreeNode(v))

\* parent->AddChild(child): push_front on the list of children.
TreeAddChild(tree, parent, child) ==
    [tree EXCEPT ![parent].children_ = <<child>> \o @]

\* core::AST::ASTNode as a value; NullNode is the null pointer.
ASTNode(type, value, children) ==
    [type_ |-> type, value_ |-> value, children_ |-> children]

NullNode == ASTNode("NULL", <<>>, <<>>)

\* ASTNode::AddChild of each pointer of the list that is not null, in order.
AddChildren(node, list) ==
    [node EXCEPT !.children_ =
        @ \o SelectSeq(list, LAMBDA c : c # NullNode)]

\* The value a Parse call returns: a null pointer or an AST with its root.
NullAST == [is_null |-> TRUE, root_ |-> NullNode]

AST(root) == [is_null |-> FALSE, root_ |-> root]

\* std::isdigit and std::isalpha of the first character of a string.
IsDigit(c) == c \in DigitChars

IsAlpha(c) == c \in AlphaChars

(***************************************************************************)
(* parser/ll1_parser.cpp: LL1Parser                                        *)
(***************************************************************************)

IsTerminal(symbol, terminals) == symbol \in terminals

TokenTypeToParserString(type) ==
    CASE type = "IDENTIFIER"  -> Sym.identifier
      [] type = "NUMBER"      -> Sym.number
      [] type = "LEFT_PAREN"  -> Sym.left_paren
      [] type = "RIGHT_PAREN" -> Sym.right_paren
      [] type = "PLUS"        -> Sym.plus
      [] type = "TIMES"       -> Sym.times
      [] type = "ASSIGN"      -> Sym.assign
      [] type = "SEMICOLON"   -> Sym.semicolon
      [] type = "END_OF_FILE" -> END_NODE_VALUE
      [] OTHER                -> <<>>

Term(token, symbol) == TokenTypeToParserString(token.type_) = symbol

LL1_terminals_ ==
    {Sym.identifier, Sym.number, Sym.left_paren, Sym.right_paren, Sym.plus,
     Sym.times, Sym.assign, Sym.semicolon, END_NODE_VALUE}

\* parse_table_: non-terminal -> (terminal -> production).
parse_table_ ==
    (Sym.Program :>
        (Sym.identifier :> <<Sym.StatementList>>
         @@ END_NODE_VALUE :> <<Sym.StatementList>>))
    @@ (Sym.StatementList :>
        (Sym.identifier :> <<Sym.Statement, Sym.StatementList>>
         @@ END_NODE_VALUE :> <<Sym.epsilon>>))
    @@ (Sym.Statement :>
        (Sym.identifier :>
            <<Sym.identifier, Sym.assign, Sym.Expression, Sym.semicolon>>))
    @@ (Sym.Expression :>
        (Sym.identifier :> <<Sym.Term, Sym.ExpressionPrime>>
         @@ Sym.number :> <<Sym.Term, Sym.ExpressionPrime>>
         @@ Sym.left_paren :> <<Sym.Term, Sym.ExpressionPrime>>))
    @@ (Sym.ExpressionPrime :>
        (Sym.plus :> <<Sym.plus, Sym.Term, Sym.ExpressionPrime>>
         @@ Sym.semicolon :> <<Sym.epsilon>>
         @@ Sym.right_paren :> <<Sym.epsilon>>))
    @@ (Sym.Term :>
        (Sym.identifier :> <<Sym.Factor, Sym.TermPrime>>
         @@ Sym.number :> <<Sym.Factor, Sym.TermPrime>>
         @@ Sym.left_paren :> <<Sym.Factor, Sym.TermPrime>>))
    @@ (Sym.TermPrime :>
        (Sym.times :> <<Sym.times, Sym.Factor, Sym.TermPrime>>
         @@ Sym.plus :> <<Sym.epsilon>>
         @@ Sym.semicolon :> <<Sym.epsilon>>
         @@ Sym.right_paren :> <<Sym.epsilon>>))
    @@ (Sym.Factor :>
        (Sym.identifier :> <<Sym.identifier>>
         @@ Sym.number :> <<Sym.number>>
         @@ Sym.left_paren :>
            <<Sym.left_paren, Sym.Expression, Sym.right_paren>>))

\* An LL1Parser after its constructor: the stack is a member and starts
\* empty; its top is the last element.  tree is the heap of TreeNodes the
\* parser has made, result what the last Parse call returned.
NewLL1Parser ==
    [pc |-> "idle", lexer_ |-> NewLexer, parse_stack_ |-> <<>>,
     tree |-> <<>>, parse_root |-> 0,
     current_token |-> NoToken, token_consumed |-> TRUE,
     result |-> NullAST]

LL1SetInput(p, input) == [p EXCEPT !.lexer_ = SetInput(@, input)]

\* Parse, up to its loop: the root of the parse tree, the end marker and
\* the start symbol pushed on whatever the stack holds.
LL1ParseEnter(p) ==
    LET t1 == NewTreeNode(p.tree, ROOT_NODE_VALUE)
        parse_root == Len(t1)
        t2 == NewTreeNode(t1, END_NODE_VALUE)
    IN  [p EXCEPT !.pc = "loop", !.tree = t2, !.parse_root = parse_root,
                  !.parse_stack_ =
                      @ \o <<[first |-> END_NODE_VALUE, second |-> Len(t2)],
                             [first |-> Sym.Program, second |-> parse_root]>>,
                  !.current_token = Token("IDENTIFIER", <<>>, 0, 0),
                  !.token_consumed = TRUE,
                  !.result = NullAST]

\* The condition of the while loop of Parse.
LL1LoopCondition(p) ==
    /\ p.parse_stack_ # <<>>
    /\ p.parse_stack_[Len(p.parse_stack_)].first # END_NODE_VALUE

\* return nullptr from Parse: the stack stays as it is.
LL1ReturnNull(p) == [p EXCEPT !.pc = "done", !.result = NullAST]

\* The production pushed right to left, a child node made for each symbol.
RECURSIVE LL1PushProduction(_, _, _, _)
LL1PushProduction(p, production, i, current_tree_node) ==
    IF i = 0 THEN p
    ELSE LET t1 == NewTreeNode(p.tree, production[i])
             child_node == Len(t1)
             t2 == IF current_tree_node # 0
                   THEN TreeAddChild(t1, current_tree_node, child_node)
                   ELSE t1
         IN  LL1PushProduction(
                 [p EXCEPT !.tree = t2,
                           !.parse_stack_ =
                               Append(@, [first |-> production[i],
                                          second |-> child_node])],
                 production, i - 1, current_tree_node)

\* One pass of the body of the while loop, from a parser whose current
\* token is in place.
LL1Process(p) ==
    LET top == p.parse_stack_[Len(p.parse_stack_)]
        current_symbol == top.first
        current_tree_node == top.second
        popped == SubSeq(p.parse_stack_, 1, Len(p.parse_stack_) - 1)
    IN  IF IsTerminal(current_symbol, LL1_terminals_)
        THEN IF Term(p.current_token, current_symbol)
             THEN [p EXCEPT !.tree[current_tree_node].val_ =
                                p.current_token.value_,
                            !.parse_stack_ = popped,
                            !.token_consumed = TRUE]
             ELSE LL1ReturnNull(p)
        ELSE IF current_symbol \notin DOMAIN parse_table_
        THEN LL1ReturnNull(p)
        ELSE
        LET row == parse_table_[current_symbol]
            token_string == TokenTypeToParserString(p.current_token.type_)
            key == IF token_string \notin DOMAIN row
                      /\ token_string # END_NODE_VALUE
                   THEN END_NODE_VALUE
                   ELSE token_string
        IN  IF key \notin DOMAIN row
            THEN LL1ReturnNull(p)
            ELSE
            LET production == row[key]
                q == [p EXCEPT !.parse_stack_ = popped]
            IN  IF Len(production) = 1
                   /\ production[1] \in {Sym.epsilon, Sym.epsilon_word}
                THEN q
                ELSE LL1PushProduction(q, production, Len(production),
                                       current_tree_node)

\* One pass of the while loop: the next token is taken first when the
\* current one has been consumed.
LL1Iteration(p) ==
    IF ~p.token_consumed THEN LL1Process(p)
    ELSE IF ~HasNext(p.lexer_)
    THEN LL1Process([p EXCEPT !.current_token =
                                  Token("END_OF_FILE", END_NODE_VALUE, 0, 0),
                              !.token_consumed = FALSE])
    ELSE LET token_opt == LexNext(p.lexer_)
         IN  IF ~token_opt.has_value
             THEN LL1ReturnNull([p EXCEPT !.lexer_ = token_opt.lexer])
             ELSE LL1Process([p EXCEPT !.lexer_ = token_opt.lexer,
                                       !.current_token = token_opt.token,
                                       !.token_consumed = FALSE])

RECURSIVE LL1TransformToASTNode(_, _)
RECURSIVE LL1CollectStatements(_, _, _)
RECURSIVE LL1TransformChildren(_, _, _)
RECURSIVE LL1ExpressionLoop(_, _, _, _, _)
RECURSIVE LL1TransformExpressionPrime(_, _, _)
RECURSIVE LL1TermLoop(_, _, _, _, _)
RECURSIVE LL1TransformTermPrime(_, _, _)
RECURSIVE LL1TransformFactor(_, _, _)

LL1CreateTerminalASTNode(symbol) ==
    CASE symbol = Sym.identifier -> ASTNode("IDENTIFIER", symbol, <<>>)
      [] symbol = Sym.number     -> ASTNode("NUMBER", symbol, <<>>)
      [] symbol = Sym.plus       -> ASTNode("PLUS", <<"+">>, <<>>)
      [] symbol = Sym.times      -> ASTNode("TIMES", <<"*">>, <<>>)
      [] symbol = Sym.assign     -> ASTNode("ASSIGN", <<"<", "-">>, <<>>)
      [] OTHER                   -> NullNode

\* CollectStatements: the statements it adds to the root, from child i on.
\* CollectStatements as it would be if it gathered the statements of the
\* nested list before the statement next to it.
LL1CollectStatementsNestedFirst(tree, parse_node, i) ==
    LET ch == tree[parse_node].children_
    IN  IF i > Len(ch) THEN <<>>
        ELSE LL1CollectStatements(tree, parse_node, i + 1)
             \o (IF tree[ch[i]].val_ = Sym.Statement
                 THEN <<LL1TransformToASTNode(tree, ch[i])>>
                 ELSE IF tree[ch[i]].val_ = Sym.StatementList
                 THEN LL1CollectStatements(tree, ch[i], 1)
                 ELSE <<>>)

LL1CollectStatements(tree, parse_node, i) ==
    LET ch == tree[parse_node].children_
    IN  IF i > Len(ch) THEN <<>>
        ELSE (IF tree[ch[i]].val_ = Sym.Statement
              THEN <<LL1TransformToASTNode(tree, ch[i])>>
              ELSE IF tree[ch[i]].val_ = Sym.StatementList
              THEN LL1CollectStatements(tree, ch[i], 1)
              ELSE <<>>)
             \o LL1CollectStatements(tree, parse_node, i + 1)

LL1TransformProgram(tree, parse_node) ==
    LET root == ASTNode("ROOT", ROOT_NODE_VALUE, <<>>)
        ch == tree[parse_node].children_
    IN  IF ch # <<>>
        THEN AddChildren(root, LL1CollectStatements(tree, ch[1], 1))
        ELSE root

LL1TransformStatement(tree, parse_node) ==
    LET ch == tree[parse_node].children_
        assign_node == ASTNode("ASSIGN", <<"<", "-">>, <<>>)
        identifier_node ==
            IF Len(ch) >= 1 /\ tree[ch[1]].children_ = <<>>
            THEN ASTNode("IDENTIFIER", tree[ch[1]].val_, <<>>)
            ELSE NullNode
        expression_node ==
            IF Len(ch) >= 3 /\ tree[ch[3]].val_ = Sym.Expression
            THEN LL1TransformToASTNode(tree, ch[3])
            ELSE NullNode
    IN  AddChildren(assign_node, <<identifier_node, expression_node>>)

\* The loop of TransformExpression over the children, from child i on.
LL1ExpressionLoop(tree, ch, i, left_operand, expression_prime) ==
    IF i > Len(ch)
    THEN IF expression_prime # NullNode THEN expression_prime
         ELSE left_operand
    ELSE IF tree[ch[i]].val_ = Sym.Term
    THEN LL1ExpressionLoop(tree, ch, i + 1,
                           LL1TransformToASTNode(tree, ch[i]),
                           expression_prime)
    ELSE IF tree[ch[i]].val_ = Sym.ExpressionPrime
    THEN LL1ExpressionLoop(tree, ch, i + 1, left_operand,
                           LL1TransformExpressionPrime(tree, ch[i],
                                                       left_operand))
    ELSE LL1ExpressionLoop(tree, ch, i + 1, left_operand, expression_prime)

LL1TransformExpression(tree, parse_node) ==
    LL1ExpressionLoop(tree, tree[parse_node].children_, 1, NullNode, NullNode)

LL1TransformExpressionPrime(tree, parse_node, left_operand) ==
    LET ch == tree[parse_node].children_
        operator_node ==
            IF Len(ch) >= 1 /\ tree[ch[1]].val_ = <<"+">>
            THEN ASTNode("PLUS", <<"+">>, <<>>)
            ELSE NullNode
        right_operand ==
            IF Len(ch) >= 2 /\ tree[ch[2]].val_ = Sym.Term
            THEN LL1TransformToASTNode(tree, ch[2])
            ELSE NullNode
        joined ==
            /\ Len(ch) >= 3
            /\ tree[ch[3]].val_ = Sym.ExpressionPrime
            /\ operator_node # NullNode
            /\ left_operand # NullNode
            /\ right_operand # NullNode
        filled == AddChildren(operator_node, <<left_operand, right_operand>>)
        rest_expression ==
            IF joined THEN LL1TransformExpressionPrime(tree, ch[3], filled)
            ELSE NullNode
    IN  IF ch = <<>> THEN left_operand
        ELSE IF rest_expression # NullNode THEN rest_expression
        ELSE IF operator_node # NullNode
        THEN (IF joined THEN filled ELSE operator_node)
        ELSE left_operand

\* The loop of TransformTerm over the children, from child i on.
LL1TermLoop(tree, ch, i, left_operand, term_prime) ==
    IF i > Len(ch)
    THEN IF term_prime # NullNode THEN term_prime ELSE left_operand
    ELSE IF tree[ch[i]].val_ = Sym.Factor
    THEN LL1TermLoop(tree, ch, i + 1, LL1TransformToASTNode(tree, ch[i]),
                     term_prime)
    ELSE IF tree[ch[i]].val_ = Sym.TermPrime
    THEN LL1TermLoop(tree, ch, i + 1, left_operand,
                     LL1TransformTermPrime(tree, ch[i], left_operand))
    ELSE LL1TermLoop(tree, ch, i + 1, left_operand, term_prime)

LL1TransformTerm(tree, parse_node) ==
    LL1TermLoop(tree, tree[parse_node].children_, 1, NullNode, NullNode)

LL1TransformTermPrime(tree, parse_node, left_operand) ==
    LET ch == tree[parse_node].children_
        operator_node ==
            IF Len(ch) >= 1 /\ tree[ch[1]].val_ = <<"*">>
            THEN ASTNode("TIMES", <<"*">>, <<>>)
            ELSE NullNode
        right_operand ==
            IF Len(ch) >= 2 /\ tree[ch[2]].val_ = Sym.Factor
            THEN LL1TransformToASTNode(tree, ch[2])
            ELSE NullNode
        joined ==
            /\ Len(ch) >= 3
            /\ tree[ch[3]].val_ = Sym.TermPrime
            /\ operator_node # NullNode
            /\ left_operand # NullNode
            /\ right_operand # NullNode
        filled == AddChildren(operator_node, <<left_operand, right_operand>>)
        rest_term ==
            IF joined THEN LL1TransformTermPrime(tree, ch[3], filled)
            ELSE NullNode
    IN  IF ch = <<>> THEN left_operand
        ELSE IF rest_term # NullNode THEN rest_term
        ELSE IF operator_node # NullNode
        THEN (IF joined THEN filled ELSE operator_node)
        ELSE left_operand

\* TransformFactor: the loop over the children, from child i on.
LL1TransformFactor(tree, parse_node, i) ==
    LET ch == tree[parse_node].children_
        val == tree[ch[i]].val_
    IN  IF i > Len(ch) THEN NullNode
        ELSE IF val = Sym.Expression
        THEN LL1TransformToASTNode(tree, ch[i])
        ELSE IF tree[ch[i]].children_ = <<>> /\ val # <<>> /\ IsDigit(val[1])
        THEN ASTNode("NUMBER", val, <<>>)
        ELSE IF tree[ch[i]].children_ = <<>> /\ val # <<>> /\ IsAlpha(val[1])
        THEN ASTNode("IDENTIFIER", val, <<>>)
        ELSE LL1TransformFactor(tree, parse_node, i + 1)

\* The default of TransformToASTNode: the children that transform to a
\* node, in order, from child i on.
LL1TransformChildren(tree, ch, i) ==
    IF i > Len(ch) THEN <<>>
    ELSE <<LL1TransformToASTNode(tree, ch[i])>>
         \o LL1TransformChildren(tree, ch, i + 1)

LL1TransformToASTNode(tree, parse_node) ==
    IF parse_node = 0 THEN NullNode
    ELSE
    LET symbol == tree[parse_node].val_
    IN  CASE IsTerminal(symbol, LL1_terminals_) ->
                LL1CreateTerminalASTNode(symbol)
          [] symbol = ROOT_NODE_VALUE /\ tree[parse_node].children_ # <<>> ->
                LL1TransformProgram(tree, parse_node)
          [] symbol = Sym.Program -> LL1TransformProgram(tree, parse_node)
          [] symbol = Sym.StatementList -> NullNode
          [] symbol = Sym.Statement -> LL1TransformStatement(tree, parse_node)
          [] symbol = Sym.Expression ->
                LL1TransformExpression(tree, parse_node)
          [] symbol = Sym.Term -> LL1TransformTerm(tree, parse_node)
          [] symbol = Sym.Factor -> LL1TransformFactor(tree, parse_node, 1)
          [] OTHER ->
                AddChildren(ASTNode("ROOT", symbol, <<>>),
                            LL1TransformChildren(tree,
                                tree[parse_node].children_, 1))

LL1BuildAST(tree, parse_tree) ==
    IF parse_tree = 0 THEN NullAST
    ELSE AST(LL1TransformToASTNode(tree, parse_tree))

\* Parse, after its loop.
LL1ParseExit(p) ==
    IF \/ p.parse_stack_ = <<>>
       \/ p.parse_stack_[Len(p.parse_stack_)].first # END_NODE_VALUE
    THEN LL1ReturnNull(p)
    ELSE IF HasNext(p.lexer_)
    THEN LL1ReturnNull(p)
    ELSE [p EXCEPT !.pc = "done",
                   !.parse_stack_ = SubSeq(@, 1, Len(@) - 1),
                   !.result = LL1BuildAST(p.tree, p.parse_root)]

(***************************************************************************)
(* parser/slr_parser.h, parser/slr_parser.cpp: SLRParser                   *)
(***************************************************************************)

\* SLRParser::Action, as its constructor builds it.
Action(type, state, rhs, lhs) ==
    [type_ |-> type, state_ |-> state, rhs_ |-> rhs, lhs_ |-> lhs]

Shift(state) == Action("SHIFT", state, <<>>, <<>>)

Reduce(rhs, lhs) == Action("REDUCE", 0, rhs, lhs)

Accept == Action("ACCEPT", 0, <<>>, <<>>)

SLR_terminals_ ==
    {Sym.identifier, Sym.number, Sym.left_paren, Sym.right_paren, Sym.plus,
     Sym.times, Sym.assign, Sym.semicolon, END_NODE_VALUE}

\* goto_table_: state -> (non-terminal -> state).
goto_table_ ==
    (0 :> (Sym.Program :> 1 @@ Sym.StatementList :> 2 @@ Sym.Statement :> 3))
    @@ (2 :> (Sym.Statement :> 4 @@ Sym.StatementList :> 5))
    @@ (3 :> (Sym.Statement :> 4 @@ Sym.StatementList :> 5))
    @@ (4 :> (Sym.Statement :> 4 @@ Sym.StatementList :> 5))
    @@ (6 :> (Sym.Expression :> 8 @@ Sym.Term :> 9 @@ Sym.Factor :> 10))
    @@ (8 :> (Sym.Term :> 11))
    @@ (9 :> (Sym.Factor :> 12))
    @@ (11 :> (Sym.Factor :> 12))
    @@ (13 :> (Sym.Expression :> 14 @@ Sym.Term :> 9 @@ Sym.Factor :> 10))
    @@ (18 :> (Sym.Term :> 11 @@ Sym.Factor :> 10))
    @@ (19 :> (Sym.Factor :> 12))

\* action_table_: state -> (terminal -> action).
action_table_ ==
    (0 :> (Sym.identifier :> Shift(7)
            @@ END_NODE_VALUE :> Reduce(<<>>, Sym.StatementList)))
    @@ (1 :> (END_NODE_VALUE :> Accept))
    @@ (2 :> (END_NODE_VALUE :> Reduce(<<Sym.StatementList>>, Sym.Program)))
    @@ (3 :> (Sym.identifier :> Shift(7)
            @@ END_NODE_VALUE :> Reduce(<<>>, Sym.StatementList)))
    @@ (4 :> (Sym.identifier :> Shift(7)
            @@ END_NODE_VALUE :> Reduce(<<>>, Sym.StatementList)))
    @@ (5 :> ([t \in {Sym.identifier, END_NODE_VALUE} |->
            Reduce(<<Sym.Statement, Sym.StatementList>>, Sym.StatementList)]))
    @@ (6 :> (Sym.identifier :> Shift(15)
            @@ Sym.number :> Shift(16)
            @@ Sym.left_paren :> Shift(13)))
    @@ (7 :> (Sym.assign :> Shift(6)))
    @@ (8 :> (Sym.semicolon :> Shift(17)
            @@ Sym.plus :> Shift(18)))
    @@ (9 :> ([t \in {Sym.semicolon, Sym.right_paren, Sym.plus} |->
            Reduce(<<Sym.Term>>, Sym.Expression)]
            @@ Sym.times :> Shift(19)))
    @@ (10 :> ([t \in {Sym.semicolon, Sym.right_paren, Sym.plus, Sym.times} |->
            Reduce(<<Sym.Factor>>, Sym.Term)]))
    @@ (11 :> ([t \in {Sym.semicolon, Sym.right_paren, Sym.plus} |->
            Reduce(<<Sym.Expression, Sym.plus, Sym.Term>>, Sym.Expression)]
            @@ Sym.times :> Shift(19)))
    @@ (12 :> ([t \in {Sym.semicolon, Sym.right_paren, Sym.plus, Sym.times} |->
            Reduce(<<Sym.Term, Sym.times, Sym.Factor>>, Sym.Term)]))
    @@ (13 :> (Sym.identifier :> Shift(15)
            @@ Sym.number :> Shift(16)
            @@ Sym.left_paren :> Shift(13)))
    @@ (14 :> (Sym.right_paren :> Shift(20)
            @@ Sym.plus :> Shift(18)))
    @@ (15 :> ([t \in {Sym.semicolon, Sym.right_paren, Sym.plus, Sym.times} |->
            Reduce(<<Sym.identifier>>, Sym.Factor)]))
    @@ (16 :> ([t \in {Sym.semicolon, Sym.right_paren, Sym.plus, Sym.times} |->
            Reduce(<<Sym.number>>, Sym.Factor)]))
    @@ (17 :> ([t \in {Sym.identifier, END_NODE_VALUE} |->
            Reduce(<<Sym.identifier, Sym.assign, Sym.Expression, Sym.semicolon>>, Sym.Statement)]))
    @@ (18 :> (Sym.identifier :> Shift(15)
            @@ Sym.number :> Shift(16)
            @@ Sym.left_paren :> Shift(13)))
    @@ (19 :> (Sym.identifier :> Shift(15)
            @@ Sym.number :> Shift(16)
            @@ Sym.left_paren :> Shift(13)))
    @@ (20 :> ([t \in {Sym.semicolon, Sym.right_paren, Sym.plus, Sym.times} |->
            Reduce(<<Sym.left_paren, Sym.Expression, Sym.right_paren>>, Sym.Factor)]))

TokenTypeToString(type) ==
    CASE type = "IDENTIFIER"  -> Sym.identifier
      [] type = "NUMBER"      -> Sym.number
      [] type = "PLUS"        -> Sym.plus
      [] type = "TIMES"       -> Sym.times
      [] type = "LEFT_PAREN"  -> Sym.left_paren
      [] type = "RIGHT_PAREN" -> Sym.right_paren
      [] type = "ASSIGN"      -> Sym.assign
      [] type = "SEMICOLON"   -> Sym.semicolon
      [] type = "END_OF_FILE" -> END_NODE_VALUE
      [] OTHER                -> <<>>

\* An SLRParser after its constructor: Init leaves one entry on the stack,
\* a tuple of symbol, node and state; the top of the stack is its last
\* element.  pc is "crashed" when undefined behaviour has ended the process,
\* and ub records that Parse has used a token Next did not return.
NewSLRParser ==
    [pc |-> "idle", lexer_ |-> NewLexer,
     slr_stack_ |-> <<<<ROOT_NODE_VALUE, 0, 0>>>>,
     tree |-> <<>>, root_node |-> 0, terminal_node |-> 0,
     token_value |-> <<>>, ub |-> FALSE, result |-> NullAST]

SLRSetInput(p, input) == [p EXCEPT !.lexer_ = SetInput(@, input)]

\* Parse, up to its loop.
SLRParseEnter(p) ==
    LET t1 == NewTreeNode(p.tree, ROOT_NODE_VALUE)
    IN  [p EXCEPT !.pc = "top", !.lexer_ = Reset(@), !.tree = t1,
                  !.root_node = Len(t1), !.ub = FALSE, !.result = NullAST]

SLRReturnNull(p) == [p EXCEPT !.pc = "done", !.result = NullAST]

SLRReturn(p, ast) == [p EXCEPT !.pc = "done", !.result = ast]

\* The token Parse uses when Next returned none: the optional is
\* dereferenced all the same, so its type and value are whatever the
\* storage holds, or the process ends.
TokenTypes ==
    {"IDENTIFIER", "NUMBER", "PLUS", "TIMES", "LEFT_PAREN", "RIGHT_PAREN",
     "ASSIGN", "SEMICOLON", "END_OF_FILE", "STRING"}

AbsentTokens ==
    {Token(type, value, 0, 0) :
        type \in TokenTypes \cup {"INVALID"}, value \in {<<>>, <<"?">>}}

\* The body of the outer loop once a token has been taken.
SLRTakeToken(p, token) ==
    LET t1 == NewTreeNode(p.tree, token.value_)
    IN  [p EXCEPT !.pc = "inner", !.tree = t1, !.terminal_node = Len(t1),
                  !.token_value = TokenTypeToString(token.type_)]

\* The pops of a reduction, top first.
SLRPopped(stack, n) ==
    [i \in 1..n |-> stack[Len(stack) + 1 - i][2]]

\* The loop from child_nodes.rbegin() to rend(), from element i down.
RECURSIVE SLRAddChildren(_, _, _, _)
SLRAddChildren(tree, reduce_node, child_nodes, i) ==
    IF i = 0 THEN tree
    ELSE SLRAddChildren(TreeAddChild(tree, reduce_node, child_nodes[i]),
                        reduce_node, child_nodes, i - 1)

\* A REDUCE action as it would be if it popped one entry more than the
\* right-hand side has symbols.
SLRReduceOneMore(p, action_to_take) ==
    LET n == Len(action_to_take.rhs_) + 1
    IN  IF Len(p.slr_stack_) <= n
        THEN [p EXCEPT !.pc = "crashed", !.slr_stack_ = <<>>]
        ELSE
        LET t1 == NewTreeNode(p.tree, action_to_take.lhs_)
            reduce_node == Len(t1)
            child_nodes == SLRPopped(p.slr_stack_, n)
            t2 == SLRAddChildren(t1, reduce_node, child_nodes, n)
            stack == SubSeq(p.slr_stack_, 1, Len(p.slr_stack_) - n)
            top_state == stack[Len(stack)][3]
            q == [p EXCEPT !.tree = t2, !.slr_stack_ = stack]
        IN  IF \/ top_state \notin DOMAIN goto_table_
               \/ action_to_take.lhs_ \notin DOMAIN goto_table_[top_state]
            THEN SLRReturnNull(q)
            ELSE [q EXCEPT !.slr_stack_ =
                     Append(@, <<action_to_take.lhs_, reduce_node,
                                 goto_table_[top_state][action_to_take.lhs_]>>)]

\* A REDUCE action: the right-hand side popped, its nodes made the children
\* of a new node, leftmost added first, and the goto state pushed.  top() or
\* pop() of an empty stack ends the process.
SLRReduce(p, action_to_take) ==
    LET n == Len(action_to_take.rhs_)
    IN  IF Len(p.slr_stack_) <= n THEN [p EXCEPT !.pc = "crashed"]
        ELSE
        LET t1 == NewTreeNode(p.tree, action_to_take.lhs_)
            reduce_node == Len(t1)
            child_nodes == SLRPopped(p.slr_stack_, n)
            t2 == SLRAddChildren(t1, reduce_node, child_nodes, n)
            stack == SubSeq(p.slr_stack_, 1, Len(p.slr_stack_) - n)
            top_state == stack[Len(stack)][3]
            q == [p EXCEPT !.tree = t2, !.slr_stack_ = stack]
        IN  IF \/ top_state \notin DOMAIN goto_table_
               \/ action_to_take.lhs_ \notin DOMAIN goto_table_[top_state]
            THEN SLRReturnNull(q)
            ELSE [q EXCEPT !.slr_stack_ =
                     Append(@, <<action_to_take.lhs_, reduce_node,
                                 goto_table_[top_state][action_to_take.lhs_]>>)]

RECURSIVE SLRTransformToASTNode(_, _)
RECURSIVE SLRCollectStatements(_, _, _)
RECURSIVE SLRTransformChildren(_, _, _)
RECURSIVE SLRTransformFactor(_, _, _)

SLRCreateTerminalASTNode(symbol) ==
    CASE symbol = Sym.identifier -> ASTNode("IDENTIFIER", symbol, <<>>)
      [] symbol = Sym.number     -> ASTNode("NUMBER", symbol, <<>>)
      [] symbol = Sym.plus       -> ASTNode("PLUS", <<"+">>, <<>>)
      [] symbol = Sym.times      -> ASTNode("TIMES", <<"*">>, <<>>)
      [] symbol = Sym.assign     -> ASTNode("ASSIGN", <<"<", "-">>, <<>>)
      [] OTHER                   -> NullNode

\* CollectStatements: the statements it adds to the root, the children
\* visited from the last to the first, from child i down.
SLRCollectStatements(tree, parse_node, i) ==
    LET ch == tree[parse_node].children_
    IN  IF i < 1 THEN <<>>
        ELSE (IF tree[ch[i]].val_ = Sym.Statement
              THEN <<SLRTransformToASTNode(tree, ch[i])>>
              ELSE IF tree[ch[i]].val_ = Sym.StatementList
              THEN SLRCollectStatements(tree, ch[i],
                                        Len(tree[ch[i]].children_))
              ELSE <<>>)
             \o SLRCollectStatements(tree, parse_node, i - 1)

SLRTransformProgram(tree, parse_node) ==
    LET root == ASTNode("ROOT", ROOT_NODE_VALUE, <<>>)
        ch == tree[parse_node].children_
    IN  IF ch # <<>>
        THEN AddChildren(root, SLRCollectStatements(tree, ch[1],
                                   Len(tree[ch[1]].children_)))
        ELSE root

SLRTransformStatement(tree, parse_node) ==
    LET ch == tree[parse_node].children_
        assign_node == ASTNode("ASSIGN", <<"<", "-">>, <<>>)
        identifier_node ==
            IF Len(ch) >= 4 /\ tree[ch[4]].children_ = <<>>
            THEN ASTNode("IDENTIFIER", tree[ch[4]].val_, <<>>)
            ELSE NullNode
        expression_node ==
            IF Len(ch) >= 2 /\ tree[ch[2]].val_ = Sym.Expression
            THEN SLRTransformToASTNode(tree, ch[2])
            ELSE NullNode
    IN  AddChildren(assign_node, <<identifier_node, expression_node>>)

SLRTransformExpression(tree, parse_node) ==
    LET ch == tree[parse_node].children_
    IN  IF Len(ch) = 1 THEN SLRTransformToASTNode(tree, ch[1])
        ELSE IF Len(ch) = 3
        THEN LET right_term == SLRTransformToASTNode(tree, ch[1])
                 left_expr == SLRTransformToASTNode(tree, ch[3])
             IN  AddChildren(ASTNode("PLUS", <<"+">>, <<>>),
                             <<left_expr, right_term>>)
        ELSE NullNode

SLRTransformTerm(tree, parse_node) ==
    LET ch == tree[parse_node].children_
    IN  IF Len(ch) = 1 THEN SLRTransformToASTNode(tree, ch[1])
        ELSE IF Len(ch) = 3
        THEN LET right_factor == SLRTransformToASTNode(tree, ch[1])
                 left_term == SLRTransformToASTNode(tree, ch[3])
             IN  AddChildren(ASTNode("TIMES", <<"*">>, <<>>),
                             <<left_term, right_factor>>)
        ELSE NullNode

\* TransformFactor: the loop over the children, from child i on.
SLRTransformFactor(tree, parse_node, i) ==
    LET ch == tree[parse_node].children_
        val == tree[ch[i]].val_
    IN  IF i > Len(ch) THEN NullNode
        ELSE IF val = Sym.Expression
        THEN SLRTransformToASTNode(tree, ch[i])
        ELSE IF tree[ch[i]].children_ = <<>> /\ val # <<>> /\ IsDigit(val[1])
        THEN ASTNode("NUMBER", val, <<>>)
        ELSE IF tree[ch[i]].children_ = <<>> /\ val # <<>> /\ IsAlpha(val[1])
        THEN ASTNode("IDENTIFIER", val, <<>>)
        ELSE SLRTransformFactor(tree, parse_node, i + 1)

SLRTransformChildren(tree, ch, i) ==
    IF i > Len(ch) THEN <<>>
    ELSE <<SLRTransformToASTNode(tree, ch[i])>>
         \o SLRTransformChildren(tree, ch, i + 1)

SLRTransformToASTNode(tree, parse_node) ==
    IF parse_node = 0 THEN NullNode
    ELSE
    LET symbol == tree[parse_node].val_
    IN  CASE IsTerminal(symbol, SLR_terminals_) ->
                SLRCreateTerminalASTNode(symbol)
          [] symbol = ROOT_NODE_VALUE /\ tree[parse_node].children_ # <<>> ->
                SLRTransformProgram(tree, parse_node)
          [] symbol = Sym.Program -> SLRTransformProgram(tree, parse_node)
          [] symbol = Sym.StatementList -> NullNode
          [] symbol = Sym.Statement -> SLRTransformStatement(tree, parse_node)
          [] symbol = Sym.Expression ->
                SLRTransformExpression(tree, parse_node)
          [] symbol = Sym.Term -> SLRTransformTerm(tree, parse_node)
          [] symbol = Sym.Factor -> SLRTransformFactor(tree, parse_node, 1)
          [] OTHER ->
                AddChildren(ASTNode("ROOT", symbol, <<>>),
                            SLRTransformChildren(tree,
                                tree[parse_node].children_, 1))

SLRBuildAST(tree, parse_tree) ==
    IF parse_tree = 0 THEN NullAST
    ELSE AST(SLRTransformToASTNode(tree, parse_tree))

\* One pass of the inner loop of Parse, on the token taken.  A REJECT
\* action leaves the loop where it is.
SLRInner(p) ==
    LET current_state == p.slr_stack_[Len(p.slr_stack_)][3]
    IN  IF current_state \notin DOMAIN action_table_
        THEN SLRReturnNull(p)
        ELSE IF p.token_value \notin DOMAIN action_table_[current_state]
        THEN SLRReturnNull(p)
        ELSE
        LET action_to_take == action_table_[current_state][p.token_value]
        IN  CASE action_to_take.type_ = "SHIFT" ->
                    [p EXCEPT !.pc = "top",
                              !.slr_stack_ =
                                  Append(@, <<p.token_value, p.terminal_node,
                                              action_to_take.state_>>)]
              [] action_to_take.type_ = "REDUCE" ->
                    SLRReduce(p, action_to_take)
              [] action_to_take.type_ = "ACCEPT" ->
                    SLRReturn(p, SLRBuildAST(p.tree, p.root_node))
              [] OTHER -> p

\* One pass of the outer loop of Parse when the lexer has no next token.
SLREndOfInput(p) ==
    LET top == p.slr_stack_[Len(p.slr_stack_)]
        current_state == top[3]
    IN  IF current_state \notin DOMAIN action_table_
        THEN SLRReturnNull(p)
        ELSE IF END_NODE_VALUE \notin DOMAIN action_table_[current_state]
        THEN SLRReturnNull(p)
        ELSE
        LET action_to_take == action_table_[current_state][END_NODE_VALUE]
        IN  IF action_to_take.type_ = "ACCEPT"
            THEN SLRReturn(p, SLRBuildAST(p.tree, top[2]))
            ELSE IF action_to_take.type_ = "REDUCE"
            THEN SLRReduce(p, action_to_take)
            ELSE SLRReturnNull(p)

(***************************************************************************)
(* An LL1Parser and an SLRParser given the same text                       *)
(***************************************************************************)

\* Both parsers as constructed.  The two are separate objects, each with a
\* lexer of its own; the SLR parser is run once the LL(1) parser has
\* returned, so that a state holds what each returned for the text.
Init ==
    /\ lexer = NewLexer
    /\ lastcall = NoCall
    /\ ll1 = NewLL1Parser
    /\ slr = NewSLRParser
    /\ automaton = NoAutomaton

\* SetInput(t) on both parsers, before either has parsed.
ParserSetInput ==
    /\ ll1 = NewLL1Parser
    /\ slr = NewSLRParser
    /\ \E t \in Texts :
         /\ ll1' = LL1SetInput(ll1, t)
         /\ slr' = SLRSetInput(slr, t)
    /\ UNCHANGED <<lexer, lastcall, automaton>>

\* LL1Parser::Parse is called.
LL1ParseCall ==
    /\ ll1.pc = "idle"
    /\ ll1' = LL1ParseEnter(ll1)
    /\ UNCHANGED <<lexer, lastcall, slr, automaton>>

\* One pass of the loop of LL1Parser::Parse.
LL1ParseStep ==
    /\ ll1.pc = "loop"
    /\ LL1LoopCondition(ll1)
    /\ ll1' = LL1Iteration(ll1)
    /\ UNCHANGED <<lexer, lastcall, slr, automaton>>

\* LL1Parser::Parse leaves its loop and returns.
LL1ParseReturn ==
    /\ ll1.pc = "loop"
    /\ ~LL1LoopCondition(ll1)
    /\ ll1' = LL1ParseExit(ll1)
    /\ UNCHANGED <<lexer, lastcall, slr, automaton>>

\* SLRParser::Parse is called.
SLRParseCall ==
    /\ ll1.pc = "done"
    /\ slr.pc = "idle"
    /\ slr' = SLRParseEnter(slr)
    /\ UNCHANGED <<lexer, lastcall, ll1, automaton>>

\* The outer loop of SLRParser::Parse takes the next token.  When Next
\* returns none the token is any of AbsentTokens, or the process ends.
SLRParseToken ==
    /\ slr.pc = "top"
    /\ HasNext(slr.lexer_)
    /\ LET token == LexNext(slr.lexer_)
           q == [slr EXCEPT !.lexer_ = token.lexer,
                            !.ub = @ \/ ~token.has_value]
       IN  \E o \in (IF token.has_value THEN {token.token}
                     ELSE AbsentTokens \cup {NoToken}) :
              slr' = IF o = NoToken THEN [q EXCEPT !.pc = "crashed"]
                     ELSE SLRTakeToken(q, o)
    /\ UNCHANGED <<lexer, lastcall, ll1, automaton>>

\* One pass of the inner loop of SLRParser::Parse.
SLRParseAction ==
    /\ slr.pc = "inner"
    /\ slr' = SLRInner(slr)
    /\ UNCHANGED <<lexer, lastcall, ll1, automaton>>

\* One pass of the outer loop of SLRParser::Parse at the end of the input.
SLRParseEndOfInput ==
    /\ slr.pc = "top"
    /\ ~HasNext(slr.lexer_)
    /\ slr' = SLREndOfInput(slr)
    /\ UNCHANGED <<lexer, lastcall, ll1, automaton>>

Next ==
    \/ ParserSetInput
    \/ LL1ParseCall
    \/ LL1ParseStep
    \/ LL1ParseReturn
    \/ SLRParseCall
    \/ SLRParseToken
    \/ SLRParseAction
    \/ SLRParseEndOfInput

Spec == Init /\ [][Next]_vars

(***************************************************************************)
(* The grammar of the language, as a reference for the parsers             *)
(*                                                                         *)
(*   Program       -> StatementList                                        *)
(*   StatementList -> Statement StatementList | epsilon                    *)
(*   Statement     -> identifier assign Expression semicolon               *)
(*   Expression    -> Expression plus Term | Term                          *)
(*   Term          -> Term times Factor | Factor                           *)
(*   Factor        -> identifier | number | string                         *)
(*                  | left_paren Expression right_paren                    *)
(***************************************************************************)

\* The text both parsers were given.
Text == ll1.lexer_.input_

\* Every character of the text belongs to a token or is whitespace.
RECURSIVE LexicallyClean(_)
LexicallyClean(lx) ==
    \/ ~HasNext(lx)
    \/ LET n == LexNext(lx) IN n.has_value /\ LexicallyClean(n.lexer)

\* The kinds of the tokens of a text.
TokensOf(t) == Tokenize(NewLexer, t).tokens

KindAt(toks, i) == IF i <= Len(toks) THEN toks[i].type_ ELSE "END_OF_FILE"

RefFail == [ok |-> FALSE, ast |-> NullNode, next |-> 0]

RefOk(ast, next) == [ok |-> TRUE, ast |-> ast, next |-> next]

\* A derivation of each non-terminal from token i on: whether there is one,
\* the tree the grammar intends for it (binary operators fold to the left,
\* parentheses leave no node), and the index of the token after it.
RECURSIVE RefFactor(_, _)
RECURSIVE RefTermRest(_, _, _)
RECURSIVE RefExpressionRest(_, _, _)
RECURSIVE RefStatements(_, _, _)

RefTerm(toks, i) ==
    LET f == RefFactor(toks, i)
    IN  IF f.ok THEN RefTermRest(toks, f.next, f.ast) ELSE RefFail

RefExpression(toks, i) ==
    LET t == RefTerm(toks, i)
    IN  IF t.ok THEN RefExpressionRest(toks, t.next, t.ast) ELSE RefFail

RefFactor(toks, i) ==
    CASE KindAt(toks, i) \in {"IDENTIFIER", "NUMBER", "STRING"} ->
            RefOk(ASTNode(toks[i].type_, toks[i].value_, <<>>), i + 1)
      [] KindAt(toks, i) = "LEFT_PAREN" ->
            LET e == RefExpression(toks, i + 1)
            IN  IF e.ok /\ KindAt(toks, e.next) = "RIGHT_PAREN"
                THEN RefOk(e.ast, e.next + 1)
                ELSE RefFail
      [] OTHER -> RefFail

RefTermRest(toks, i, left) ==
    IF KindAt(toks, i) # "TIMES" THEN RefOk(left, i)
    ELSE LET f == RefFactor(toks, i + 1)
         IN  IF f.ok
             THEN RefTermRest(toks, f.next,
                              ASTNode("TIMES", <<"*">>, <<left, f.ast>>))
             ELSE RefFail

RefExpressionRest(toks, i, left) ==
    IF KindAt(toks, i) # "PLUS" THEN RefOk(left, i)
    ELSE LET t == RefTerm(toks, i + 1)
         IN  IF t.ok
             THEN RefExpressionRest(toks, t.next,
                                    ASTNode("PLUS", <<"+">>, <<left, t.ast>>))
             ELSE RefFail

RefStatement(toks, i) ==
    IF KindAt(toks, i) = "IDENTIFIER" /\ KindAt(toks, i + 1) = "ASSIGN"
    THEN LET e == RefExpression(toks, i + 2)
         IN  IF e.ok /\ KindAt(toks, e.next) = "SEMICOLON"
             THEN RefOk(ASTNode("ASSIGN", <<"<", "-">>,
                                <<ASTNode("IDENTIFIER", toks[i].value_, <<>>),
                                  e.ast>>),
                        e.next + 1)
             ELSE RefFail
    ELSE RefFail

RefStatements(toks, i, done) ==
    IF i > Len(toks)
    THEN RefOk(ASTNode("ROOT", ROOT_NODE_VALUE, done), i)
    ELSE LET s == RefStatement(toks, i)
         IN  IF s.ok THEN RefStatements(toks, s.next, Append(done, s.ast))
             ELSE RefFail

\* The derivation of Program from the whole text, if there is one.
RefProgram(t) ==
    IF LexicallyClean(SetInput(NewLexer, t))
    THEN RefStatements(TokensOf(t), 1, <<>>)
    ELSE RefFail

\* The token sequence of the text is a sentence of the grammar.
IsSentence(t) == RefProgram(t).ok

\* Both parsers have returned.
BothDone == ll1.pc = "done" /\ slr.pc \in {"done", "crashed"}

\* What each parser returned for the text, by strategy.
Returned == <<ll1.result, slr.result>>

(***************************************************************************)
(* Properties of the parsers                                               *)
(***************************************************************************)

Leaf(type, value) == ASTNode(type, value, <<>>)

Id(value) == Leaf("IDENTIFIER", value)

Plus(l, r) == ASTNode("PLUS", <<"+">>, <<l, r>>)

Times(l, r) == ASTNode("TIMES", <<"*">>, <<l, r>>)

Assign(target, e) == ASTNode("ASSIGN", <<"<", "-">>, <<Id(target), e>>)

Root(statements) == ASTNode("ROOT", ROOT_NODE_VALUE, statements)

\* The expression of an Assign node, if it has one.
ExprOf(assign) ==
    IF Len(assign.children_) >= 2 THEN assign.children_[2] ELSE NullNode

\* The operands of the sum a node stands for: what is left of it when its
\* Plus nodes are taken away, from left to right.
RECURSIVE Summands(_)
Summands(e) ==
    IF e.type_ = "PLUS"
    THEN Join([i \in 1..Len(e.children_) |-> Summands(e.children_[i])])
    ELSE <<e>>

SummandsOf(root) ==
    [i \in 1..Len(root.children_) |-> Summands(ExprOf(root.children_[i]))]

\* The text has a parenthesis.
HasParens(t) == \E i \in 1..Len(t) : t[i] = "("

\* Both parsers have returned, this one with an AST, for a text that is a
\* sentence.
Accepted(p) ==
    BothDone /\ p.pc = "done" /\ ~p.result.is_null /\ IsSentence(Text)

C1Text == <<"a", " ", "<", "-", " ", "b", " ", "+", " ", "c", " ", "*", " ", "d", ";">>

C1Tree == Root(<<Assign(<<"a">>, Plus(Id(<<"b">>), Times(Id(<<"c">>), Id(<<"d">>))))>>)

\* C1: multiplication binds tighter than addition under both parsers: in the
\* AST of every accepted statement the operands of the sum are the product
\* chains of the statement, each folded into its own Times subtree, and
\* "a <- b + c * d;" yields Root[Assign(a, Plus(b, Times(c, d)))].
C1_Precedence ==
    \A p \in {ll1, slr} :
        /\ Accepted(p) =>
              SummandsOf(p.result.root_) = SummandsOf(RefProgram(Text).ast)
        /\ (p.pc = "done" /\ Text = C1Text) => p.result = AST(C1Tree)

\* Both parsers have returned an AST for "a<-_x+b*1;": the Plus of the
\* LL(1) parser has no operand, the one of the SLR(1) parser only b * 1.
C1_Witness ==
    /\ Text = <<"a", "<", "-", "_", "x", "+", "b", "*", "1", ";">>
    /\ BothDone
    /\ Accepted(ll1)
    /\ Accepted(slr)
    /\ ExprOf(ll1.result.root_.children_[1]) = ASTNode("PLUS", <<"+">>, <<>>)
    /\ ExprOf(slr.result.root_.children_[1]) =
          ASTNode("PLUS", <<"+">>,
                  <<Times(Id(<<"b">>), Leaf("NUMBER", <<"1">>))>>)

C2Text == <<"x", " ", "<", "-", " ", "a", " ", "+", " ", "b", " ", "+", " ", "c", ";">>

C2TimesText == <<"x", " ", "<", "-", " ", "a", " ", "*", " ", "b", " ", "*", " ", "c", ";">>

\* C2: a chain of one binary operator of any length folds to the left, the
\* left operand first and the right operand second: the AST of every
\* accepted program without parentheses is the left fold of the grammar, so
\* "x <- a + b + c;" yields Plus(Plus(a, b), c) and "x <- a * b * c;" yields
\* Times(Times(a, b), c).
C2_LeftAssociative ==
    \A p \in {ll1, slr} :
        /\ (Accepted(p) /\ ~HasParens(Text)) =>
              p.result.root_ = RefProgram(Text).ast
        /\ (p.pc = "done" /\ Text = C2Text) =>
              p.result = AST(Root(<<Assign(<<"x">>,
                  Plus(Plus(Id(<<"a">>), Id(<<"b">>)), Id(<<"c">>)))>>))
        /\ (p.pc = "done" /\ Text = C2TimesText) =>
              p.result = AST(Root(<<Assign(<<"x">>,
                  Times(Times(Id(<<"a">>), Id(<<"b">>)), Id(<<"c">>)))>>))

\* Both parsers have returned an AST for "a<-_x+b+1;": the Plus of the
\* LL(1) parser has no operand, and the inner Plus of the SLR(1) parser has
\* the right operand b as its first and only child.
C2_Witness ==
    /\ Text = <<"a", "<", "-", "_", "x", "+", "b", "+", "1", ";">>
    /\ BothDone
    /\ Accepted(ll1)
    /\ Accepted(slr)
    /\ ExprOf(ll1.result.root_.children_[1]) = ASTNode("PLUS", <<"+">>, <<>>)
    /\ ExprOf(slr.result.root_.children_[1]) =
          Plus(ASTNode("PLUS", <<"+">>, <<Id(<<"b">>)>>), Leaf("NUMBER", <<"1">>))

C3Text == <<"x", " ", "<", "-", " ", "(", "a", " ", "+", " ", "b", ")", " ", "*", " ", "c", ";">>

\* C3: a parenthesized sub-expression is replaced in the AST by the AST of
\* its inner expression and acts as one operand, at any depth: the AST of
\* every accepted program with parentheses is the tree of the grammar, in
\* which parentheses leave no node, and "x <- (a + b) * c;" yields
\* Times(Plus(a, b), c).
C3_Parentheses ==
    \A p \in {ll1, slr} :
        /\ (Accepted(p) /\ HasParens(Text)) =>
              p.result.root_ = RefProgram(Text).ast
        /\ (p.pc = "done" /\ Text = C3Text) =>
              p.result = AST(Root(<<Assign(<<"x">>,
                  Times(Plus(Id(<<"a">>), Id(<<"b">>)), Id(<<"c">>)))>>))

\* Both parsers have returned an AST for "a<-(_x)*b;" in which the
\* parenthesized operand is missing from the Times node.
C3_Witness ==
    /\ Text = <<"a", "<", "-", "(", "_", "x", ")", "*", "b", ";">>
    /\ BothDone
    /\ Accepted(ll1)
    /\ Accepted(slr)
    /\ ExprOf(ll1.result.root_.children_[1]) = ASTNode("TIMES", <<"*">>, <<>>)
    /\ ExprOf(slr.result.root_.children_[1]) =
          ASTNode("TIMES", <<"*">>, <<Id(<<"b">>)>>)

\* The positions of the semicolons among the tokens of a text.
Semicolons(toks) == {i \in 1..Len(toks) : toks[i].type_ = "SEMICOLON"}

\* The number of statements of a sentence, given its tokens.
StatementCount(toks) == Cardinality(Semicolons(toks))

\* The token the i-th statement of a sentence begins with: the first token,
\* or the one after the semicolon of the statement before.
TargetOf(toks, i) ==
    LET starts == {1} \cup {j + 1 : j \in Semicolons(toks)}
    IN  toks[CHOOSE j \in starts : Cardinality({k \in starts : k < j}) = i - 1]

\* C4: the Root of the AST of an accepted program of n statements has
\* exactly n children, all of them Assign nodes, and the i-th is the Assign
\* of the i-th statement, the one whose target that statement begins with.
C4_StatementOrder ==
    \A p \in {ll1, slr} :
        Accepted(p) =>
            LET kids == p.result.root_.children_
                toks == TokensOf(Text)
            IN  /\ p.result.root_.type_ = "ROOT"
                /\ Len(kids) = StatementCount(toks)
                /\ \A i \in 1..Len(kids) :
                     /\ kids[i].type_ = "ASSIGN"
                     /\ kids[i].children_ # <<>>
                     /\ kids[i].children_[1] = Id(TargetOf(toks, i).value_)

\* Both parsers have returned an AST for three statements with three
\* different targets.
C4_Witness ==
    /\ Accepted(ll1)
    /\ Accepted(slr)
    /\ StatementCount(TokensOf(Text)) = 3
    /\ Cardinality({TargetOf(TokensOf(Text), i).value_ : i \in 1..3}) = 3

\* C5: for every input whose token sequence is not a sentence of the
\* grammar Parse returns no AST under both parsers, never the AST of a
\* proper prefix of the input.
C5_RejectsNonSentences ==
    \A p \in {ll1, slr} :
        (p.pc = "done" /\ ~IsSentence(Text)) => p.result.is_null

\* The LL(1) parser has returned the AST of "a<-1;" for a text that goes on
\* after it, which the SLR(1) parser has refused.
C5_Witness ==
    /\ BothDone
    /\ ~IsSentence(Text)
    /\ Len(Text) > 5
    /\ ll1.result = AST(Root(<<Assign(<<"a">>, Leaf("NUMBER", <<"1">>))>>))
    /\ slr.result.is_null

C6Texts == {<<"a", " ", "<", "-">>, <<"<", "-", " ", "1", ";">>,
            <<"a", " ", "<", " ", "1", ";">>}

\* C6: on "a <-", "<- 1;" and "a < 1;" Parse returns normally with no AST
\* under both parsers, without a crash and without reading a token the
\* lexer did not deliver.
C6_MalformedInputs ==
    Text \in C6Texts =>
        /\ ~slr.ub
        /\ slr.pc # "crashed"
        /\ \A p \in {ll1, slr} : p.pc = "done" => p.result.is_null

\* The SLR(1) parser has read the token the lexer did not deliver for the
\* lone "<" of "a < 1;".
C6_Witness ==
    /\ Text = <<"a", " ", "<", " ", "1", ";">>
    /\ ll1.pc = "done"
    /\ ll1.result.is_null
    /\ slr.ub

\* C7: for every syntactically valid program the two parsers, each used
\* fresh on the same text, return structurally identical ASTs.
C7_ParsersAgree ==
    (BothDone /\ IsSentence(Text)) =>
        /\ slr.pc = "done"
        /\ ll1.result = slr.result

\* Both parsers have returned an AST for a valid program, and not the same.
C7_Witness ==
    /\ BothDone
    /\ Accepted(ll1)
    /\ Accepted(slr)
    /\ ll1.result # slr.result

RECURSIVE RunDfa(_, _)
RunDfa(d, w) ==
    IF w = <<>> THEN [alive |-> TRUE, dfa |-> d]
    ELSE LET r == Evaluate(d, Head(w))
         IN  IF r.ret THEN RunDfa(r.dfa, Tail(w))
             ELSE [alive |-> FALSE, dfa |-> r.dfa]

Alive(i, w) == RunDfa(DfaAt(i, 0), w).alive

Accepts(i, w) ==
    LET r == RunDfa(DfaAt(i, 0), w) IN r.alive /\ IsAccepted(r.dfa)

StringDfa == Len(dfa_list_) - 1

\* The lengths of the prefixes of the input from position s on that some
\* automaton accepts, each within the run of characters that are not
\* whitespace or going through whitespace the string automaton is alive at.
AcceptedLengths(input, s) ==
    {n \in 1..(Len(input) - s) :
        /\ \E i \in DfaIndex : Accepts(i, SubSeq(input, s + 1, s + n))
        /\ \A k \in 1..n :
              input[s + k] \in WsChars =>
                  Alive(StringDfa, SubSeq(input, s + 1, s + k - 1))}

\* C8: maximal munch.  When some automaton accepts a prefix of the input
\* from the token start on, Next returns a token whose lexeme is the longest
\* such prefix and leaves the scan position at the end of that lexeme, and
\* "<-" is exactly one ASSIGN token with the lexeme "<-".
C8_MaximalMunch ==
    /\ lastcall.op = "Next" =>
          LET input == lastcall.pre.input_
              s == SkipFrom(input, lastcall.pre.current_pos_)
              lens == AcceptedLengths(input, s)
          IN  lens # {} =>
                  /\ lastcall.ret
                  /\ lastcall.token.value_ = SubSeq(input, s + 1, s + Max(lens))
                  /\ lexer.current_pos_ = s + Max(lens)
    /\ (lastcall.op = "Tokenize" /\ lexer.input_ = <<"<", "-">>) =>
          /\ Len(lastcall.tokens) = 1
          /\ lastcall.tokens[1].type_ = "ASSIGN"
          /\ lastcall.tokens[1].value_ = <<"<", "-">>

\* Next has returned the identifier "a1_", of which "a" and "a1" are
\* accepted too.
C8_Witness ==
    /\ lastcall.op = "Next"
    /\ lastcall.pre.input_ = <<"a", "1", "_">>
    /\ lastcall.pre.current_pos_ = 0
    /\ Cardinality(AcceptedLengths(lastcall.pre.input_, 0)) = 3
    /\ lastcall.token.value_ = <<"a", "1", "_">>
    /\ lexer.current_pos_ = 3

\* C9: for the empty input and for an input of space, tab, newline and
\* carriage return only, Tokenize returns the empty sequence, HasNext
\* returns false and Next returns no token.
C9_WhitespaceOnly ==
    (IsWsText(lexer.input_) /\ lastcall.op # "new") =>
        /\ lastcall.op = "Tokenize" => lastcall.tokens = <<>>
        /\ lastcall.op = "HasNext" => ~lastcall.ret
        /\ lastcall.op = "Next" => (~lastcall.ret /\ lastcall.token = NoToken)
        /\ ~HasNext(lexer)

\* Next has returned no token for a carriage return and a newline.
C9_Witness ==
    /\ lexer.input_ = <<"\r", "\n">>
    /\ lastcall.op = "Next"
    /\ ~lastcall.ret

(***************************************************************************)
(* Reading a lexer to its end                                              *)
(***************************************************************************)

\* The tokens collected by the loop "while HasNext(): t = Next(); keep t
\* if it is a token", started on the lexer lx.
RECURSIVE ReadAll(_)
ReadAll(lx) ==
    LET Kept(n) == IF n.has_value THEN <<n.token>> \o ReadAll(n.lexer)
                   ELSE ReadAll(n.lexer)
    IN  IF HasNext(lx) THEN Kept(LexNext(lx)) ELSE <<>>

\* The first tokenization of a text: by Tokenize and by the loop, on a
\* lexer that has read nothing yet.
FirstTokenize(t) == Tokenize(NewLexer, t).tokens

FirstReadAll(t) == ReadAll(SetInput(NewLexer, t))

\* C11: after SetInput(t) and any calls, Reset() followed by reading all
\* the tokens gives the first tokenization of t again, kind, lexeme, line
\* and column alike, whichever way the tokens are read; and Tokenize(t)
\* called again on the same lexer returns what the first call returned.
C11_ResetRoundTrip ==
    /\ lastcall.op = "Reset" =>
         /\ ReadAll(lexer) = FirstReadAll(lexer.input_)
         /\ TokenizeLoop(lexer, <<>>).tokens = FirstTokenize(lexer.input_)
    /\ lastcall.op = "Tokenize" =>
         lastcall.tokens = FirstTokenize(lexer.input_)

\* Reset is called after some tokens of a text of several lines were
\* read, and the text read again has a token beyond the first line.
C11_Witness ==
    /\ lastcall.op = "Reset"
    /\ lastcall.pre.current_pos_ > 0
    /\ lastcall.pre.current_line_ > 1
    /\ \E i \in 1..Len(ReadAll(lexer)) : ReadAll(lexer)[i].line > 1

\* C12: for every text, Tokenize(text) returns the full token sequence,
\* the one collected by SetInput(text) and the loop "while HasNext():
\* t = Next(); keep t if it is a token".
C12_TokenizeIsFull ==
    lastcall.op = "Tokenize" => lastcall.tokens = FirstReadAll(lexer.input_)

\* Tokenize returned on a text in which a token follows a failed attempt.
C12_Witness ==
    /\ lastcall.op = "Tokenize"
    /\ Len(FirstReadAll(lexer.input_)) > Len(lastcall.tokens)
    /\ Len(lastcall.tokens) > 0

\* The offset of the first non-whitespace character at or after the scan
\* position of lx: where the next token attempt starts.
TokenStart(lx) == SkipFrom(lx.input_, lx.current_pos_)

\* C13: when a token attempt starting at offset p, the first non-whitespace
\* character, ends with no automaton having accepted, Next() returns none
\* and the scan position afterwards is exactly p + 1, so that no later
\* character is skipped.
C13_FailureAdvancesOne ==
    (/\ lastcall.op = "Next"
     /\ HasNext(lastcall.pre)
     /\ ~lastcall.ret)
    => lexer.current_pos_ = TokenStart(lastcall.pre) + 1

\* A token attempt has failed at a character that another non-whitespace
\* character follows.
C13_Witness ==
    /\ lastcall.op = "Next"
    /\ HasNext(lastcall.pre)
    /\ ~lastcall.ret
    /\ TokenStart(lastcall.pre) + 1 < Len(lexer.input_)
    /\ ~IsWhitespace(lexer.input_[TokenStart(lastcall.pre) + 2])

\* C14: every call to Next() made while unconsumed non-whitespace input
\* remains strictly increases the scan position, whether it returns a token
\* or none, and the position never passes the end of the text by more than
\* the one character a failed attempt skips; so the number of calls a
\* HasNext/Next loop or Tokenize can make on a text is bounded by its
\* length.
C14_NextAdvances ==
    (lastcall.op = "Next" /\ HasNext(lastcall.pre))
    => /\ lexer.current_pos_ > lastcall.pre.current_pos_
       /\ lexer.current_pos_ <= Len(lexer.input_) + 1

\* Next() has returned none at the first character of the text, and no
\* whitespace was there to be skipped.
C14_Witness ==
    /\ lastcall.op = "Next"
    /\ HasNext(lastcall.pre)
    /\ ~lastcall.ret
    /\ lastcall.pre.current_pos_ = 0
    /\ ~IsWhitespace(lexer.input_[1])

(***************************************************************************)
(* Termination and shape of the results of the parsers                     *)
(***************************************************************************)

\* C15: Parse terminates on every text, under the LL(1) and under the SLR
\* strategy, and returns an AST or no AST, syntactically invalid texts
\* included: no run of the parsers ends otherwise than by both having
\* returned.
C15_ParseTerminates ==
    (ll1.pc \notin {"idle", "loop"} /\ slr.pc \notin {"idle", "top", "inner"})
    => (ll1.pc = "done" /\ slr.pc = "done")

\* The loops of the two parsers make finitely many passes: every run of
\* the parsers has a last step.
C15_NoEndlessLoop == <>[][FALSE]_vars

\* SLRParser::Parse has ended without returning.
C15_Witness == ll1.pc = "done" /\ slr.pc = "crashed"

C16Text == <<"m", "s", "g", " ", "<", "-", " ", "\"", "h", "e", "l", "l", "o", " ",
             "w", "o", "r", "l", "d", "\"", ";">>

C16Tree ==
    Root(<<Assign(<<"m", "s", "g">>,
                  Leaf("STRING", <<"\"", "h", "e", "l", "l", "o", " ",
                                   "w", "o", "r", "l", "d", "\"">>))>>)

\* The kinds of the tokens of a text, in order.
KindsOf(t) == [i \in 1..Len(TokensOf(t)) |-> TokensOf(t)[i].type_]

\* The text is one statement that assigns a string literal.
IsStringStatement(t) ==
    /\ LexicallyClean(SetInput(NewLexer, t))
    /\ KindsOf(t) = <<"IDENTIFIER", "ASSIGN", "STRING", "SEMICOLON">>

\* C16: a statement whose expression is a string literal is valid under
\* both parsers: each returns an AST for it, and for
\* 'msg <- "hello world";' the AST is Root[Assign(Identifier msg, String
\* "hello world")], the value of the String leaf being the literal with its
\* quotes.
C16_StringLiteral ==
    \A p \in {ll1, slr} :
        /\ (p.pc = "done" /\ IsStringStatement(Text)) => ~p.result.is_null
        /\ (p.pc = "done" /\ Text = C16Text) => p.result = AST(C16Tree)

\* Both parsers have returned for 'msg <- "hello world";'.
C16_Witness ==
    /\ BothDone
    /\ Text = C16Text
    /\ IsStringStatement(Text)
    /\ ll1.result.is_null
    /\ slr.pc = "done" /\ slr.result.is_null

(***************************************************************************)
(* String literals                                                         *)
(***************************************************************************)

\* The offsets e at which a literal opened at offset s closes: the quote
\* at e is the first one after s, and only characters a literal may hold
\* stand between the two.
ClosingQuotes(input, s) ==
    {e \in (s + 1)..(Len(input) - 1) :
        /\ input[e + 1] = "\""
        /\ \A k \in (s + 1)..(e - 1) : input[k + 1] \in Range(StringBody)}

RECURSIVE WellShaped(_)
WellShaped(n) ==
    /\ n # NullNode
    /\ n.type_ \in {"ASSIGN", "PLUS", "TIMES"} => Len(n.children_) = 2
    /\ n.type_ \in {"IDENTIFIER", "NUMBER", "STRING"} => Len(n.children_) = 0
    /\ \A i \in 1..Len(n.children_) : WellShaped(n.children_[i])

\* C18: in every AST that Parse returns, under either parser and whatever
\* lexemes the identifiers have, each Assign, Plus and Times node has
\* exactly two children that are not null and each Identifier, Number and
\* String node has none.
C18_NodeArity ==
    \A p \in {ll1, slr} :
        (p.pc = "done" /\ ~p.result.is_null) => WellShaped(p.result.root_)

\* Both parsers have returned an AST for a sentence that has an identifier
\* beginning with an underscore among its operands.
C18_Witness ==
    /\ Accepted(ll1)
    /\ Accepted(slr)
    /\ \E i \in 2..Len(TokensOf(Text)) :
          /\ TokensOf(Text)[i].type_ = "IDENTIFIER"
          /\ TokensOf(Text)[i].value_[1] = "_"
    /\ ~WellShaped(ll1.result.root_)
    /\ ~WellShaped(slr.result.root_)

(***************************************************************************)
(* An automaton used through its public interface                          *)
(***************************************************************************)

\* The number of states of the automaton, that of the number automaton of
\* the tests.
DfaNumStates == 2

\* Most transitions and final states given to the automaton.
MaxBuilt == 3

\* The state arguments of the calls: every state, one below and one above.
DfaStateArgs == -1..DfaNumStates

\* The symbol arguments of the calls: two of the alphabet, one outside it.
DfaSymbols == {"0", "1", "a"}

\* The transitions and final states the automaton has been given.
DfaSize(d) ==
    Cardinality({e \in (1..d.num_states_) \X (1..d.alphabet_size_) :
                    d.states_transition_[e[1]][e[2]] # -1})
    + Cardinality(d.final_states_)

\* The last call made on the automaton: its arguments, the automaton
\* before it and what it returned; ub tells that the call had undefined
\* behaviour, crashed that the process ended in it, and dead that an
\* Evaluate call on the released automaton has failed since the last Init.
DfaCall(op, args, pre, ret, ub, crashed, dead) ==
    [op |-> op, args |-> args, pre |-> pre, ret |-> ret, ub |-> ub,
     crashed |-> crashed, dead |-> dead]

InitDfa ==
    /\ lexer = NewLexer
    /\ ll1 = NoParser
    /\ slr = NoParser
    /\ automaton = DeterministicFiniteAutomata(DfaNumStates, DIGIT_ALPHABET, "NUMBER")
    /\ lastcall = DfaCall("new", <<>>, automaton, FALSE, FALSE, FALSE, FALSE)

\* automaton.AddTransition(from_state, symbol, to_state)
DfaAddTransition ==
    /\ ~lastcall.crashed
    /\ \E from_state \in DfaStateArgs, symbol \in DfaSymbols,
          to_state \in DfaStateArgs :
         /\ DfaSize(AddTransition(automaton, from_state, symbol, to_state))
                <= MaxBuilt
         /\ automaton' = AddTransition(automaton, from_state, symbol, to_state)
         /\ lastcall' = DfaCall("AddTransition",
                            <<from_state, symbol, to_state>>, automaton,
                            AddTransitionOk(automaton, from_state, symbol,
                                            to_state),
                            FALSE, FALSE, lastcall.dead)
    /\ UNCHANGED <<lexer, ll1, slr>>

\* automaton.SetFinalState(state)
DfaSetFinalState ==
    /\ ~lastcall.crashed
    /\ \E state \in DfaStateArgs :
         /\ DfaSize(SetFinalState(automaton, state)) <= MaxBuilt
         /\ automaton' = SetFinalState(automaton, state)
         /\ lastcall' = DfaCall("SetFinalState", <<state>>, automaton,
                                SetFinalStateOk(automaton, state),
                                FALSE, FALSE, lastcall.dead)
    /\ UNCHANGED <<lexer, ll1, slr>>

\* automaton.Release()
DfaRelease ==
    /\ ~lastcall.crashed
    /\ automaton' = Release(automaton)
    /\ lastcall' = DfaCall("Release", <<>>, automaton, FALSE, FALSE, FALSE,
                           lastcall.dead)
    /\ UNCHANGED <<lexer, ll1, slr>>

\* automaton.Init()
DfaInitCall ==
    /\ ~lastcall.crashed
    /\ automaton' = DfaInit(automaton)
    /\ lastcall' = DfaCall("Init", <<>>, automaton, FALSE, FALSE, FALSE, FALSE)
    /\ UNCHANGED <<lexer, ll1, slr>>

\* automaton.IsAccepted()
DfaIsAccepted ==
    /\ ~lastcall.crashed
    /\ lastcall' = DfaCall("IsAccepted", <<>>, automaton,
                           IsAccepted(automaton), FALSE, FALSE, lastcall.dead)
    /\ UNCHANGED <<lexer, ll1, slr, automaton>>

\* automaton.Evaluate(byte).  When the call indexes the released table out
\* of its bounds, the process ends or the entry read is any integer: -1,
\* a state, or no state at all.
DfaEvaluate ==
    /\ ~lastcall.crashed
    /\ \E byte \in DfaSymbols :
         LET Done(r) ==
                 IF ~r.ub
                 THEN /\ automaton' = r.dfa
                      /\ lastcall' = DfaCall("Evaluate", <<byte>>, automaton,
                             r.ret, FALSE, FALSE,
                             lastcall.dead \/ (automaton.released_ /\ ~r.ret))
                 ELSE \/ /\ automaton' = automaton
                         /\ lastcall' = DfaCall("Evaluate", <<byte>>,
                                automaton, FALSE, TRUE, TRUE, lastcall.dead)
                      \/ \E read \in -1..automaton.num_states_ :
                         /\ automaton' =
                                [automaton EXCEPT !.current_state_ = read]
                         /\ lastcall' = DfaCall("Evaluate", <<byte>>,
                                automaton, read # -1, TRUE, FALSE,
                                lastcall.dead \/ read = -1)
         IN  Done(Evaluate(automaton, byte))
    /\ UNCHANGED <<lexer, ll1, slr>>

NextDfa ==
    \/ DfaAddTransition
    \/ DfaSetFinalState
    \/ DfaRelease
    \/ DfaInitCall
    \/ DfaIsAccepted
    \/ DfaEvaluate

SpecDfa == InitDfa /\ [][NextDfa]_vars

(***************************************************************************)
(* Properties of the automaton                                             *)
(***************************************************************************)

\* The arguments of the last AddTransition or SetFinalState call are ones
\* the call may act on: the automaton was Building, the states are states
\* of it and the symbol, if any, is of its alphabet.
ValidBuildCall ==
    LET d == lastcall.pre
        InRange(state) == state \in 0..(d.num_states_ - 1)
    IN  /\ ~d.released_
        /\ IF lastcall.op = "AddTransition"
           THEN /\ InRange(lastcall.args[1])
                /\ InRange(lastcall.args[3])
                /\ lastcall.args[2] \in Range(DIGIT_ALPHABET)
           ELSE InRange(lastcall.args[1])

\* C19: AddTransition and SetFinalState change the automaton only while it
\* is Building and their arguments are valid: after Release(), with a state
\* outside 0..num_states-1 or with a symbol outside the alphabet the call
\* returns false and leaves the transition table, the final states and the
\* current state as they were; and a Released automaton stays Released
\* whatever is called.
C19_BuildOnlyWhileBuilding ==
    /\ lastcall.op \in {"AddTransition", "SetFinalState"} =>
          /\ lastcall.ret = ValidBuildCall
          /\ ~ValidBuildCall => automaton = lastcall.pre
    /\ lastcall.pre.released_ => automaton.released_

\* AddTransition has been called after Release() with states and a symbol
\* that are valid and would have changed the table, and has returned false.
C19_Witness ==
    /\ lastcall.op = "AddTransition"
    /\ lastcall.pre.released_
    /\ lastcall.args[1] \in 0..(DfaNumStates - 1)
    /\ lastcall.args[3] \in 0..(DfaNumStates - 1)
    /\ lastcall.args[2] \in Range(DIGIT_ALPHABET)
    /\ lastcall.pre.states_transition_[lastcall.args[1] + 1]
           [lastcall.pre.alphabet_[lastcall.args[2]] + 1] # lastcall.args[3]
    /\ ~lastcall.ret

\* C20: once an Evaluate call on a Released automaton has failed, the
\* automaton is dead until Init() is called: every later Evaluate call, for
\* a symbol inside or outside the alphabet, is well defined and returns
\* false, and IsAccepted() stays false.
C20_DeadUntilInit ==
    (lastcall.dead /\ lastcall.pre.released_) =>
        /\ ~lastcall.ub
        /\ ~lastcall.crashed
        /\ lastcall.op = "Evaluate" => ~lastcall.ret
        /\ lastcall.op = "IsAccepted" => ~lastcall.ret
        /\ ~IsAccepted(automaton)

\* Evaluate is called with a symbol of the alphabet on an automaton that a
\* failed Evaluate call has left dead.
C20_Witness ==
    /\ lastcall.op = "Evaluate"
    /\ lastcall.pre.released_
    /\ lastcall.pre.current_state_ = -1
    /\ lastcall.args[1] \in Range(DIGIT_ALPHABET)
    /\ lastcall.ub

\* The destination the released table gives for state s and the symbol of
\* index k, and the one the table built by AddTransition gives.
ReleasedAt(d, s, k) ==
    d.states_transition_released_.pool
        [d.states_transition_released_.ptr[s + 1]][k + 1]

BuiltAt(d, s, k) == d.states_transition_[s + 1][k + 1]

\* C21: Release() preserves the transition function: the released table,
\* whose equal rows are shared, maps every state and symbol to the
\* destination the AddTransition calls gave, so that Evaluate goes where
\* the uncompressed table says; and a second Release() changes nothing.
C21_ReleasePreserves ==
    /\ automaton.released_ =>
          \A s \in 0..(automaton.num_states_ - 1),
             k \in 0..(automaton.alphabet_size_ - 1) :
               ReleasedAt(automaton, s, k) = BuiltAt(automaton, s, k)
    /\ (/\ lastcall.op = "Evaluate"
        /\ lastcall.pre.released_
        /\ ~lastcall.ub
        /\ lastcall.args[1] \in DOMAIN lastcall.pre.alphabet_)
       => /\ automaton.current_state_ =
                BuiltAt(lastcall.pre, lastcall.pre.current_state_,
                        lastcall.pre.alphabet_[lastcall.args[1]])
          /\ lastcall.ret = (automaton.current_state_ # -1)
    /\ (lastcall.op = "Release" /\ lastcall.pre.released_)
       => automaton = lastcall.pre

\* Evaluate has followed a transition of a released automaton two of whose
\* states share one row.
C21_Witness ==
    /\ lastcall.op = "Evaluate"
    /\ lastcall.ret
    /\ automaton.released_
    /\ Len(automaton.states_transition_released_.pool)
          < Len(automaton.states_transition_released_.ptr)

(***************************************************************************)
(* A token attempt over any list of automata                               *)
(***************************************************************************)

\* The for loop of GetNextToken over the automata for one character, from
\* index i on, for a Lexer whose dfa_list_ is list.
RECURSIVE EvaluateList(_, _, _, _)
\* EvaluateList as it would be if the first acceptance were kept instead
\* of the last.
EvaluateListFirstMatch(list, sc, byte, i) ==
    LET Body(r) ==
            IF ~r.ret
            THEN [sc EXCEPT !.lx.dfa_state_[i] = r.dfa.current_state_,
                            !.lx.survival_list_[i] = FALSE]
            ELSE IF IsAccepted(r.dfa) /\ sc.last_accepted_pos # sc.lx.current_pos_ + 1
            THEN [sc EXCEPT !.lx.dfa_state_[i] = r.dfa.current_state_,
                            !.have_survival = TRUE,
                            !.last_accepted_pos = sc.lx.current_pos_ + 1,
                            !.last_accepted_dfa = i]
            ELSE [sc EXCEPT !.lx.dfa_state_[i] = r.dfa.current_state_,
                            !.have_survival = TRUE]
    IN  IF i >= Len(list) THEN sc
        ELSE EvaluateList(list,
                 IF ~sc.lx.survival_list_[i] THEN sc
                 ELSE Body(Evaluate([list[i + 1] EXCEPT !.current_state_ =
                                         sc.lx.dfa_state_[i]], byte)),
                 byte, i + 1)

\* EvaluateList as it would be if an automaton that has failed were
\* started again on the next character.
EvaluateListReviving(list, sc, byte, i) ==
    LET Body(r) ==
            IF ~r.ret
            THEN [sc EXCEPT !.lx.dfa_state_[i] = r.dfa.current_state_,
                            !.lx.survival_list_[i] = FALSE]
            ELSE IF IsAccepted(r.dfa)
            THEN [sc EXCEPT !.lx.dfa_state_[i] = r.dfa.current_state_,
                            !.lx.survival_list_[i] = TRUE,
                            !.have_survival = TRUE,
                            !.last_accepted_pos = sc.lx.current_pos_ + 1,
                            !.last_accepted_dfa = i]
            ELSE [sc EXCEPT !.lx.dfa_state_[i] = r.dfa.current_state_,
                            !.lx.survival_list_[i] = TRUE,
                            !.have_survival = TRUE]
    IN  IF i >= Len(list) THEN sc
        ELSE EvaluateList(list,
                 IF ~sc.lx.survival_list_[i]
                 THEN Body(Evaluate(DfaInit(list[i + 1]), byte))
                 ELSE Body(Evaluate([list[i + 1] EXCEPT !.current_state_ =
                                         sc.lx.dfa_state_[i]], byte)),
                 byte, i + 1)

EvaluateList(list, sc, byte, i) ==
    LET Body(r) ==
            IF ~r.ret
            THEN [sc EXCEPT !.lx.dfa_state_[i] = r.dfa.current_state_,
                            !.lx.survival_list_[i] = FALSE]
            ELSE IF IsAccepted(r.dfa)
            THEN [sc EXCEPT !.lx.dfa_state_[i] = r.dfa.current_state_,
                            !.have_survival = TRUE,
                            !.last_accepted_pos = sc.lx.current_pos_ + 1,
                            !.last_accepted_dfa = i]
            ELSE [sc EXCEPT !.lx.dfa_state_[i] = r.dfa.current_state_,
                            !.have_survival = TRUE]
    IN  IF i >= Len(list) THEN sc
        ELSE EvaluateList(list,
                 IF ~sc.lx.survival_list_[i] THEN sc
                 ELSE Body(Evaluate([list[i + 1] EXCEPT !.current_state_ =
                                         sc.lx.dfa_state_[i]], byte)),
                 byte, i + 1)

\* The start of GetNextToken past the whitespace: every automaton is
\* initialized and marked as surviving, and the locals are set.
ResetList(lx) ==
    [lx |-> [lx EXCEPT !.dfa_state_ = [i \in DOMAIN @ |-> 0],
                       !.survival_list_ = [i \in DOMAIN @ |-> TRUE]],
     last_accepted_pos |-> lx.current_pos_,
     last_accepted_dfa |-> -1,
     have_survival |-> TRUE]

\* A second automaton for "+", of another token class, and one for the
\* words of letters and digits.
plus_as_times_dfa_ ==
    Release(SetupPlusDFA(
        DeterministicFiniteAutomata(2, PLUS_ALPHABET, "TIMES")))

word_dfa_ ==
    Release(SetFinalState(
        AddTransitions(
            DeterministicFiniteAutomata(2, IDENTIFIER_ALPHABET, "STRING"),
            [i \in 1..Len(IDENTIFIER_ALPHABET) |-> <<0, IDENTIFIER_ALPHABET[i], 1>>]
            \o [i \in 1..Len(IDENTIFIER_ALPHABET) |-> <<1, IDENTIFIER_ALPHABET[i], 1>>]),
        1))

\* The lists of automata: that of the Lexer, and lists in which two or
\* three automata accept the same words.
TieLists ==
    {dfa_list_,
     <<plus_dfa_, plus_as_times_dfa_>>,
     <<plus_as_times_dfa_, plus_dfa_>>,
     <<plus_dfa_, plus_as_times_dfa_, plus_dfa_, number_dfa_>>,
     <<number_dfa_, identifier_dfa_, word_dfa_>>,
     <<word_dfa_, identifier_dfa_, number_dfa_>>}

\* Longest text of a token attempt.
MaxTie == 2

TieTexts == SeqsUpTo({"+", "a", "1", "_"}, MaxTie) \ {<<>>}

\* The scan of a token attempt: the list of automata and the locals of
\* GetNextToken.
TieCall(op, list, last_accepted_pos, last_accepted_dfa, have_survival) ==
    [op |-> op, list |-> list, last_accepted_pos |-> last_accepted_pos,
     last_accepted_dfa |-> last_accepted_dfa, have_survival |-> have_survival]

InitTie ==
    /\ lexer = NewLexer
    /\ lastcall = TieCall("new", <<>>, 0, -1, FALSE)
    /\ ll1 = NoParser
    /\ slr = NoParser
    /\ automaton = NoAutomaton

\* A Lexer over one of the lists is given a text; its automata are in the
\* states an earlier token attempt left them in.
TieSetInput ==
    /\ lastcall.op = "new"
    /\ \E list \in TieLists, t \in TieTexts, state \in -1..1,
          survival \in BOOLEAN :
         /\ lexer' = [SetInput(NewLexer, t) EXCEPT
                         !.dfa_state_ = [i \in 0..(Len(list) - 1) |-> state],
                         !.survival_list_ =
                             [i \in 0..(Len(list) - 1) |-> survival]]
         /\ lastcall' = TieCall("SetInput", list, 0, -1, FALSE)
    /\ UNCHANGED <<ll1, slr, automaton>>

\* GetNextToken is entered and resets the automata.
TieReset ==
    /\ lastcall.op = "SetInput"
    /\ LET sc == ResetList(lexer)
       IN  /\ lexer' = sc.lx
           /\ lastcall' = TieCall("Reset", lastcall.list, sc.last_accepted_pos,
                                  sc.last_accepted_dfa, sc.have_survival)
    /\ UNCHANGED <<ll1, slr, automaton>>

\* One pass of the while loop of GetNextToken: the automata evaluate the
\* character and the position moves on.
TieEvaluate ==
    /\ lastcall.op \in {"Reset", "Evaluate"}
    /\ lexer.current_pos_ < Len(lexer.input_)
    /\ lastcall.have_survival
    /\ LET c == lexer.input_[lexer.current_pos_ + 1]
           Pass(sc) ==
               /\ lexer' = Advance(sc.lx, c)
               /\ lastcall' = TieCall("Evaluate", lastcall.list,
                                      sc.last_accepted_pos,
                                      sc.last_accepted_dfa, sc.have_survival)
       IN  Pass(EvaluateList(lastcall.list,
                    [lx |-> lexer,
                     last_accepted_pos |-> lastcall.last_accepted_pos,
                     last_accepted_dfa |-> lastcall.last_accepted_dfa,
                     have_survival |-> FALSE],
                    c, 0))
    /\ UNCHANGED <<ll1, slr, automaton>>

NextTie ==
    \/ TieSetInput
    \/ TieReset
    \/ TieEvaluate

SpecTie == InitTie /\ [][NextTie]_vars

\* The indexes of the automata of the list of the attempt that accept the
\* text read so far.
AcceptingNow ==
    {i \in 0..(Len(lastcall.list) - 1) :
        LET r == RunDfa(DfaInit(lastcall.list[i + 1]),
                        SubSeq(lexer.input_, 1, lexer.current_pos_))
        IN  r.alive /\ IsAccepted(r.dfa)}

MaxRounds == 2

\* The texts given to a parser that is used again: programs, a program cut
\* short, the empty text and a text that starts with a number.
ReuseTexts ==
    {<<>>, <<"a", "<", "-", "1", ";">>, <<"a", "<", "-">>,
     <<"b", "<", "-", "1", "+", "1", ";">>, <<"1", ";">>}

\* The texts the parsers have been given so far.
Given(texts) == [op |-> "SetInput", texts |-> texts]

InitReuse ==
    /\ lexer = NewLexer
    /\ lastcall = Given(<<>>)
    /\ ll1 = NewLL1Parser
    /\ slr = NewSLRParser
    /\ automaton = NoAutomaton

\* SetInput(t) on both parsers: on new ones, or on ones whose Parse has
\* returned.
ReuseSetInput ==
    /\ Len(lastcall.texts) < MaxRounds
    /\ \/ lastcall.texts = <<>>
       \/ ll1.pc = "done" /\ slr.pc = "done"
    /\ \E t \in ReuseTexts :
         /\ ll1' = [LL1SetInput(ll1, t) EXCEPT !.pc = "idle"]
         /\ slr' = [SLRSetInput(slr, t) EXCEPT !.pc = "idle"]
         /\ lastcall' = Given(Append(lastcall.texts, t))
    /\ UNCHANGED <<lexer, automaton>>

NextReuse ==
    \/ ReuseSetInput
    \/ lastcall.texts # <<>> /\ LL1ParseCall
    \/ LL1ParseStep
    \/ LL1ParseReturn
    \/ lastcall.texts # <<>> /\ SLRParseCall
    \/ SLRParseToken
    \/ SLRParseAction
    \/ SLRParseEndOfInput

SpecReuse == InitReuse /\ [][NextReuse]_vars

\* Parse run to its end on a parser, for a text on which Next returns a
\* token whenever HasNext is true.
RECURSIVE RunLL1(_)
RunLL1(p) ==
    IF p.pc = "done" THEN p
    ELSE IF LL1LoopCondition(p) THEN RunLL1(LL1Iteration(p))
    ELSE LL1ParseExit(p)

RECURSIVE RunSLR(_)
RunSLR(p) ==
    IF p.pc \in {"done", "crashed"} THEN p
    ELSE IF p.pc = "inner" THEN RunSLR(SLRInner(p))
    ELSE IF HasNext(p.lexer_)
    THEN LET n == LexNext(p.lexer_)
         IN  RunSLR(SLRTakeToken([p EXCEPT !.lexer_ = n.lexer], n.token))
    ELSE RunSLR(SLREndOfInput(p))

\* What Parse returns for the text on a freshly constructed parser.
FreshLL1(t) == RunLL1(LL1ParseEnter(LL1SetInput(NewLL1Parser, t))).result

FreshSLR(t) == RunSLR(SLRParseEnter(SLRSetInput(NewSLRParser, t))).result

LastText == lastcall.texts[Len(lastcall.texts)]

\* C23: the outcome of SetInput(t) followed by Parse() depends on t alone:
\* on a parser that has parsed other texts before, with or without
\* success, it is the outcome on a freshly constructed parser of the same
\* strategy.
C23_ParseDependsOnTextAlone ==
    /\ (lastcall.texts # <<>> /\ ll1.pc = "done")
       => ll1.result = FreshLL1(LastText)
    /\ (lastcall.texts # <<>> /\ slr.pc \in {"done", "crashed"})
       => slr.pc = "done" /\ slr.result = FreshSLR(LastText)

\* The same holds of LL1Parser alone.
C23_LL1DependsOnTextAlone ==
    (lastcall.texts # <<>> /\ ll1.pc = "done")
    => ll1.result = FreshLL1(LastText)

\* Both parsers have returned for "a<-1;" given twice: LL1Parser with the
\* AST both times, SLRParser with no AST the second time.
C23_Witness ==
    /\ lastcall.texts = << <<"a", "<", "-", "1", ";">>, <<"a", "<", "-", "1", ";">> >>
    /\ ll1.pc = "done"
    /\ slr.pc = "done"
    /\ ~ll1.result.is_null
    /\ slr.result.is_null
    /\ ~FreshSLR(LastText).is_null

\* The text has a character for which Next reports no token.
HasLexicalError(t) == ~LexicallyClean(SetInput(NewLexer, t))

\* The tokens that remain when every report of no token is passed over
\* and the following token is requested are a sentence of the grammar.
RecoveredSentence(t) == RefStatements(FirstReadAll(t), 1, <<>>).ok

\* C24: a lexical error is not fatal to parsing: when Next reports no token
\* for an unrecognised character, Parse goes on to request the following
\* token, so that it returns an AST unless the tokens are no sentence.
C24_LexicalErrorNotFatal ==
    (BothDone /\ HasLexicalError(Text) /\ RecoveredSentence(Text))
    => \A p \in {ll1, slr} : p.pc = "done" /\ ~p.result.is_null

\* Both parsers have returned for a text with an unrecognised character
\* whose tokens are a statement, LL1Parser with no AST.
C24_Witness ==
    /\ BothDone
    /\ HasLexicalError(Text)
    /\ RecoveredSentence(Text)
    /\ FirstReadAll(Text) # <<>>
    /\ ll1.result.is_null

(***************************************************************************)
(* Line and column of the tokens                                           *)
(***************************************************************************)

\* The offsets 1..p of the text that hold a newline.
NewlinesBefore(t, p) == {k \in 1..p : t[k] = "\n"}

\* The line of offset p: 1 plus the number of newlines before it.
LineOf(t, p) == 1 + Cardinality(NewlinesBefore(t, p))

\* The column of offset p: 1 plus the number of characters between the last
\* newline before it, or the start of the text, and p.
ColumnOf(t, p) ==
    LET lines == NewlinesBefore(t, p)
        last == IF lines = {} THEN 0
                ELSE CHOOSE k \in lines : \A j \in lines : j <= k
    IN  1 + p - last

\* C25: every token returned by Next() carries the line and the column of
\* its first character, also a token that follows another token with no
\* whitespace between them.
C25_TokenLineColumn ==
    (lastcall.op = "Next" /\ lastcall.ret)
    => /\ lastcall.token.line =
              LineOf(lexer.input_, TokenStart(lastcall.pre))
       /\ lastcall.token.column =
              ColumnOf(lexer.input_, TokenStart(lastcall.pre))

\* Next() has returned a token that starts right after the token before
\* it, with a column that is not the column of its first character.
C25_Witness ==
    /\ lastcall.op = "Next"
    /\ lastcall.ret
    /\ TokenStart(lastcall.pre) > 0
    /\ lastcall.pre.current_pos_ = TokenStart(lastcall.pre)
    /\ ~IsWhitespace(lexer.input_[TokenStart(lastcall.pre)])
    /\ lastcall.token.column #
           ColumnOf(lexer.input_, TokenStart(lastcall.pre))

\* C26: Evaluate called on an automaton that has not been released returns
\* false and leaves the automaton as it was: the current state is the same,
\* the automaton has not become dead, and IsAccepted() gives what it gave.
C26_EvaluateNeedsRelease ==
    (lastcall.op = "Evaluate" /\ ~lastcall.pre.released_)
    => /\ ~lastcall.ret
       /\ ~lastcall.ub
       /\ automaton = lastcall.pre
       /\ automaton.current_state_ # -1
       /\ IsAccepted(automaton) = IsAccepted(lastcall.pre)

\* Evaluate has been called, with a symbol outside the alphabet, on an
\* automaton under construction that has transitions and a final state.
C26_Witness ==
    /\ lastcall.op = "Evaluate"
    /\ ~lastcall.pre.released_
    /\ lastcall.args[1] \notin DOMAIN automaton.alphabet_
    /\ automaton.final_states_ # {}
    /\ \E s \in DOMAIN automaton.states_transition_ :
         \E k \in DOMAIN automaton.states_transition_[s] :
            automaton.states_transition_[s][k] # -1

\* Longest word an automaton is run over after Init.
MaxWord == 2

DfaWords == SeqsUpTo(DfaSymbols, MaxWord)

\* The automaton as it is when it has been constructed, given the same
\* transitions and final states, and released, and has evaluated nothing.
FreshlyReleased(d) ==
    LET built == [DeterministicFiniteAutomata(d.num_states_, DIGIT_ALPHABET,
                                              d.token_class_)
                     EXCEPT !.states_transition_ = d.states_transition_,
                            !.final_states_ = d.final_states_]
    IN  Release(built)

\* What the Evaluate calls for the symbols of w return, one after the
\* other, and what IsAccepted returns after each, up to the first call
\* that has undefined behaviour, which leaves an empty entry.
RECURSIVE ResultsOf(_, _)
ResultsOf(d, w) ==
    IF w = <<>> THEN <<>>
    ELSE LET r == Evaluate(d, Head(w))
         IN  IF r.ub THEN << <<>> >>
             ELSE <<<<r.ret, IsAccepted(r.dfa)>>>> \o ResultsOf(r.dfa, Tail(w))

\* C27: Init() resets the automaton to state 0 from any state, the dead
\* state included, and in any phase, and changes nothing else; after it
\* the results of Evaluate and IsAccepted for any symbols are those of a
\* freshly released automaton for the same symbols.
C27_InitResets ==
    lastcall.op = "Init" =>
        /\ automaton = [lastcall.pre EXCEPT !.current_state_ = 0]
        /\ automaton.released_ =>
             /\ IsAccepted(automaton) = IsAccepted(FreshlyReleased(automaton))
             /\ \A w \in DfaWords :
                  ResultsOf(automaton, w)
                      = ResultsOf(FreshlyReleased(automaton), w)

\* Init() has been called on a released automaton that was dead and that
\* has a transition out of state 0.
C27_Witness ==
    /\ lastcall.op = "Init"
    /\ lastcall.pre.released_
    /\ lastcall.pre.current_state_ = -1
    /\ \E byte \in DfaSymbols : Evaluate(automaton, byte).ret

\* The offsets at or after the scan position of lx that hold a character
\* other than a space, a tab, a newline or a carriage return.
NonWhitespaceAhead(lx) ==
    {k \in (lx.current_pos_ + 1)..Len(lx.input_) : lx.input_[k] \notin WsChars}

Symbol(name, type) == [name_ |-> name, type_ |-> type]

AddSymbol(environment, name, type) == Append(environment, Symbol(name, type))

\* FindSymbolByName and GetType: the type of the topmost symbol of the
\* name, UNDEFINED when there is none.
GetType(environment, name) ==
    LET found == {i \in DOMAIN environment : environment[i].name_ = name}
    IN  IF found = {} THEN "UNDEFINED" ELSE environment[Max(found)].type_

\* What TypeCheck leaves: the type it returns, the environment, has_bug,
\* and whether it threw the runtime_error of a node with a wrong number
\* of children.
Checked(type, environment, has_bug, panic) ==
    [type |-> type, environment |-> environment, has_bug |-> has_bug,
     panic |-> panic]

\* The IDENTIFIER case as it would be if reading an unknown name were no
\* error.
TypeCheckIdentifierLenient(node, environment, has_bug) ==
    Checked(GetType(environment, node.value_), environment, has_bug, FALSE)

\* The IDENTIFIER case of TypeCheck.
TypeCheckIdentifier(node, environment, has_bug) ==
    LET type == GetType(environment, node.value_)
    IN  IF type = "UNDEFINED"
        THEN Checked("UNDEFINED", environment, TRUE, FALSE)
        ELSE Checked(type, environment, has_bug, FALSE)

\* The ASSIGN case as it would be if an assignment of another type bound
\* the variable again.
TypeCheckAssignRebinding(name, type1, checked2) ==
    LET type2 == IF checked2.type = "IN_STREAM" THEN "STRING"
                 ELSE checked2.type
    IN  IF type1 = "IN_STREAM"
        THEN Checked("UNDEFINED", checked2.environment, TRUE, FALSE)
        ELSE IF type1 = "UNDEFINED"
        THEN Checked(type2, AddSymbol(checked2.environment, name, type2),
                     checked2.has_bug, FALSE)
        ELSE IF type2 = "OUT_STREAM"
        THEN Checked("UNDEFINED", checked2.environment, TRUE, FALSE)
        ELSE IF type1 = type2
        THEN Checked(type1, checked2.environment, checked2.has_bug, FALSE)
        ELSE IF type1 = "OUT_STREAM"
        THEN Checked("OUT_STREAM", checked2.environment, checked2.has_bug,
                     FALSE)
        ELSE Checked(type2, AddSymbol(checked2.environment, name, type2),
                     checked2.has_bug, FALSE)

\* The ASSIGN case of TypeCheck once the right side has been checked:
\* type1 is the type of the target before the statement.
TypeCheckAssign(name, type1, checked2) ==
    LET type2 == IF checked2.type = "IN_STREAM" THEN "STRING"
                 ELSE checked2.type
    IN  IF type1 = "IN_STREAM"
        THEN Checked("UNDEFINED", checked2.environment, TRUE, FALSE)
        ELSE IF type1 = "UNDEFINED"
        THEN Checked(type2, AddSymbol(checked2.environment, name, type2),
                     checked2.has_bug, FALSE)
        ELSE IF type2 = "OUT_STREAM"
        THEN Checked("UNDEFINED", checked2.environment, TRUE, FALSE)
        ELSE IF type1 = type2
        THEN Checked(type1, checked2.environment, checked2.has_bug, FALSE)
        ELSE IF type1 = "OUT_STREAM"
        THEN Checked("OUT_STREAM", checked2.environment, checked2.has_bug,
                     FALSE)
        ELSE Checked(type1, checked2.environment, TRUE, FALSE)

\* The type of a product as it would be if two strings could be multiplied.
TimesTypeOfStrings(type1, type2) ==
    IF type1 = "NUMBER" /\ type2 = "NUMBER" THEN "NUMBER"
    ELSE IF type1 \in {"NUMBER", "STRING"} /\ type2 \in {"NUMBER", "STRING"}
    THEN "STRING"
    ELSE "UNDEFINED"

\* The types of a product and of a sum; UNDEFINED is an error.
TimesType(type1, type2) ==
    IF type1 = "NUMBER" /\ type2 = "NUMBER" THEN "NUMBER"
    ELSE IF type1 = "NUMBER" /\ type2 = "STRING" THEN "STRING"
    ELSE IF type1 = "STRING" /\ type2 = "NUMBER" THEN "STRING"
    ELSE "UNDEFINED"

PlusType(type1, type2) ==
    IF type1 = "NUMBER" /\ type2 = "NUMBER" THEN "NUMBER"
    ELSE IF type1 = "STRING" /\ type2 = "STRING" THEN "STRING"
    ELSE "UNDEFINED"

Panic(environment, has_bug) == Checked("UNDEFINED", environment, has_bug, TRUE)

\* AST::ASTNode::TypeCheck
RECURSIVE TypeCheck(_, _, _)
RECURSIVE TypeCheckChildren(_, _, _, _)
TypeCheckChildren(children, i, environment, has_bug) ==
    IF i > Len(children)
    THEN Checked("UNDEFINED", environment, has_bug, FALSE)
    ELSE LET Rest(c) ==
                 IF c.panic THEN c
                 ELSE TypeCheckChildren(children, i + 1, c.environment,
                                        c.has_bug)
         IN  Rest(TypeCheck(children[i], environment, has_bug))

TypeCheck(node, environment, has_bug) ==
    LET Binary(Type(_, _)) ==
            IF Len(node.children_) # 2 THEN Panic(environment, has_bug)
            ELSE LET c1 == TypeCheck(node.children_[1], environment, has_bug)
                     c2 == IF c1.panic THEN c1
                           ELSE TypeCheck(node.children_[2], c1.environment,
                                          c1.has_bug)
                     type == Type(c1.type, c2.type)
                 IN  IF c2.panic THEN c2
                     ELSE Checked(type, c2.environment,
                                  c2.has_bug \/ type = "UNDEFINED", FALSE)
    IN  CASE node.type_ = "ROOT" ->
                TypeCheckChildren(node.children_, 1, environment, has_bug)
          [] node.type_ = "ASSIGN" ->
                IF Len(node.children_) # 2 THEN Panic(environment, has_bug)
                ELSE LET name == node.children_[1].value_
                         c2 == TypeCheck(node.children_[2], environment,
                                         has_bug)
                     IN  IF c2.panic THEN c2
                         ELSE TypeCheckAssign(name,
                                  GetType(environment, name), c2)
          [] node.type_ = "IDENTIFIER" ->
                TypeCheckIdentifier(node, environment, has_bug)
          [] node.type_ = "TIMES" -> Binary(TimesType)
          [] node.type_ = "PLUS" -> Binary(PlusType)
          [] node.type_ = "NUMBER" ->
                Checked("NUMBER", environment, has_bug, FALSE)
          [] node.type_ = "STRING" ->
                Checked("STRING", environment, has_bug, FALSE)

(***************************************************************************)
(* The type checker on the ASTs of small programs                          *)
(***************************************************************************)

STDIN == <<"s", "t", "d", "i", "n">>

STDOUT == <<"s", "t", "d", "o", "u", "t">>

\* The variables of the programs, and the names written in them.
Variables == {<<"a">>, <<"b">>}

Names == Variables \cup {STDIN, STDOUT}

\* The expressions: a number, a string, a name, and the sums and products
\* of a number, a string, a variable or the input stream with one another.
Leaves == {Leaf("NUMBER", <<"1">>), Leaf("STRING", <<"\"", "s", "\"">>)}
                \cup {Id(name) : name \in Names}

InnerLeaves ==
    {Leaf("NUMBER", <<"1">>), Leaf("STRING", <<"\"", "s", "\"">>), Id(<<"a">>),
     Id(STDIN)}

Expressions ==
    Leaves
        \cup {Plus(l, r) : l \in InnerLeaves, r \in InnerLeaves}
        \cup {Times(l, r) : l \in InnerLeaves, r \in InnerLeaves}

Statements == {Assign(name, e) : name \in Names, e \in Expressions}

\* The statements that assign an operand to a variable.
Copies == {Assign(name, e) : name \in Variables, e \in Leaves}

\* The ASTs SLRParser returns for "a <- _b;" and "a <- 1 + _b;": the
\* operand that begins with an underscore is no child of its parent.
Truncated ==
    {Root(<<ASTNode("ASSIGN", <<"<", "-">>, <<Id(<<"a">>)>>)>>),
     Root(<<Assign(<<"a">>,
                   ASTNode("PLUS", <<"+">>, <<Leaf("NUMBER", <<"1">>)>>))>>)}

\* The ASTs checked: of the empty program, of one and of two statements,
\* of three statements that assign an operand to a variable, and the
\* truncated ones.
Programs ==
    {Root(<<>>)}
        \cup Truncated
        \cup {Root(<<s>>) : s \in Statements}
        \cup {Root(<<s, t>>) : s \in Statements, t \in Statements}
        \cup {Root(<<s, t, u>>) : s \in Copies, t \in Copies, u \in Copies}

\* The type checker: its AST and type environment, the has_bug of
\* CheckType, the children of the root that TypeCheck has checked, and
\* what CheckType did when it has returned.
Checker(op, ast, environment, has_bug, checked, thrown) ==
    [op |-> op, ast_ |-> ast, type_environment_ |-> environment,
     has_bug |-> has_bug, checked |-> checked, thrown |-> thrown]

\* TypeChecker::TypeChecker(ast)
InitType ==
    /\ lexer = NewLexer
    /\ ll1 = NoParser
    /\ slr = NoParser
    /\ automaton = NoAutomaton
    /\ \E ast \in Programs :
         lastcall = Checker("TypeChecker", ast,
                        AddSymbol(AddSymbol(<<>>, STDIN, "IN_STREAM"),
                                  STDOUT, "OUT_STREAM"),
                        FALSE, 0, FALSE)

\* CheckType() is called and reaches the root.
CheckTypeCall ==
    /\ lastcall.op = "TypeChecker"
    /\ lastcall' = [lastcall EXCEPT !.op = "TypeCheck", !.has_bug = FALSE]
    /\ UNCHANGED <<lexer, ll1, slr, automaton>>

\* TypeCheck of the root checks its next child.
TypeCheckChild ==
    /\ lastcall.op = "TypeCheck"
    /\ lastcall.checked < Len(lastcall.ast_.children_)
    /\ LET Done(c) ==
               lastcall' =
                   IF c.panic
                   THEN [lastcall EXCEPT !.op = "CheckType", !.thrown = TRUE]
                   ELSE [lastcall EXCEPT
                            !.type_environment_ = c.environment,
                            !.has_bug = c.has_bug,
                            !.checked = @ + 1]
       IN  Done(TypeCheck(lastcall.ast_.children_[lastcall.checked + 1],
                          lastcall.type_environment_, lastcall.has_bug))
    /\ UNCHANGED <<lexer, ll1, slr, automaton>>

\* TypeCheck of the root returns, and CheckType throws if has_bug is set.
CheckTypeReturn ==
    /\ lastcall.op = "TypeCheck"
    /\ lastcall.checked = Len(lastcall.ast_.children_)
    /\ lastcall' = [lastcall EXCEPT !.op = "CheckType",
                                    !.thrown = lastcall.has_bug]
    /\ UNCHANGED <<lexer, ll1, slr, automaton>>

NextType ==
    \/ CheckTypeCall
    \/ TypeCheckChild
    \/ CheckTypeReturn

SpecType == InitType /\ [][NextType]_vars

(***************************************************************************)
(* Properties of the type checker                                          *)
(***************************************************************************)

\* The identifiers an expression reads.
RECURSIVE Reads(_)
Reads(e) ==
    IF e.type_ = "IDENTIFIER" THEN {e.value_}
    ELSE IF e.type_ \in {"PLUS", "TIMES"}
    THEN Reads(e.children_[1]) \cup Reads(e.children_[2])
    ELSE {}

\* The target and the expression of the i-th statement of the program.
AssignedBy(i) == lastcall.ast_.children_[i].children_[1].value_

ExpressionOf(i) == lastcall.ast_.children_[i].children_[2]

\* The statements whose expression reads an identifier that no earlier
\* statement has assigned and that is no stream identifier.
ReadsUnassigned ==
    {i \in DOMAIN lastcall.ast_.children_ :
        /\ lastcall.ast_ \notin Truncated
        /\ \E name \in Reads(ExpressionOf(i)) \ {STDIN, STDOUT} :
            \A j \in 1..(i - 1) : AssignedBy(j) # name}

\* C29: type checking fails, CheckType throws, whenever an expression reads
\* an identifier that no earlier statement, in program order, has assigned
\* and that is not a reserved stream identifier.
C29_UnassignedReadFails ==
    (lastcall.op = "CheckType" /\ ReadsUnassigned # {}) => lastcall.thrown

\* CheckType has returned for a program whose first statement is well
\* typed and whose second statement reads a variable that only a later
\* statement assigns.
C29_Witness ==
    /\ lastcall.op = "CheckType"
    /\ lastcall.thrown
    /\ ReadsUnassigned = {2}
    /\ Len(lastcall.ast_.children_) = 3
    /\ AssignedBy(3) \in Reads(ExpressionOf(2))

\* The type of the value of an expression under the bindings of the
\* environment: of a number and of a sum or product of numbers NUMBER, of
\* a string, of a sum of strings and of a product of a string and a number
\* STRING, of a name what it is bound to, of anything else UNDEFINED.
RECURSIVE ValueType(_, _)
ValueType(e, environment) ==
    LET types == {ValueType(e.children_[i], environment) : i \in {1, 2}}
    IN  CASE e.type_ = "NUMBER" -> "NUMBER"
          [] e.type_ = "STRING" -> "STRING"
          [] e.type_ = "IDENTIFIER" -> GetType(environment, e.value_)
          [] e.type_ = "PLUS" ->
                IF types = {"NUMBER"} THEN "NUMBER"
                ELSE IF types = {"STRING"} THEN "STRING"
                ELSE "UNDEFINED"
          [] e.type_ = "TIMES" ->
                IF types = {"NUMBER"} THEN "NUMBER"
                ELSE IF types = {"NUMBER", "STRING"} THEN "STRING"
                ELSE "UNDEFINED"

\* The statement being checked assigns, to a variable bound to NUMBER or
\* STRING, an expression of the other of the two types.
AssignsOtherType ==
    LET statement == lastcall.ast_.children_[lastcall.checked + 1]
        bound == GetType(lastcall.type_environment_,
                         statement.children_[1].value_)
        value == ValueType(statement.children_[2], lastcall.type_environment_)
    IN  /\ lastcall.ast_ \notin Truncated
        /\ {bound, value} = {"NUMBER", "STRING"}

\* A step of CheckType keeps the type of every name bound to NUMBER or
\* STRING, sets has_bug when the statement assigns the other type, never
\* clears has_bug, and throws at the end when has_bug is set.
BindingKept ==
    lastcall.op = "TypeCheck" =>
        /\ \A name \in Names :
              GetType(lastcall.type_environment_, name) \in {"NUMBER", "STRING"}
              => GetType(lastcall'.type_environment_, name)
                     = GetType(lastcall.type_environment_, name)
        /\ (lastcall'.checked = lastcall.checked + 1 /\ AssignsOtherType)
              => lastcall'.has_bug
        /\ lastcall.has_bug => lastcall'.has_bug
        /\ (lastcall'.op = "CheckType" /\ lastcall.has_bug)
              => lastcall'.thrown

\* C30: once an assignment has bound a variable to NUMBER or STRING, no
\* later statement changes the type that GetType returns for it, and a
\* later assignment to it of an expression of the other type makes type
\* checking fail.
C30_BindingIsFinal == [][BindingKept]_vars

\* CheckType has thrown for "a <- 1; a <- "s"; b <- a;", and a is still
\* bound to NUMBER, as is b.
C30_Witness ==
    /\ lastcall.op = "CheckType"
    /\ lastcall.thrown
    /\ lastcall.ast_ =
           Root(<<Assign(<<"a">>, Leaf("NUMBER", <<"1">>)),
                  Assign(<<"a">>, Leaf("STRING", <<"\"", "s", "\"">>)),
                  Assign(<<"b">>, Id(<<"a">>))>>)
    /\ GetType(lastcall.type_environment_, <<"a">>) = "NUMBER"
    /\ GetType(lastcall.type_environment_, <<"b">>) = "NUMBER"

\* The statement being checked, its target and its expression.
CheckedStatement == lastcall.ast_.children_[lastcall.checked + 1]

CheckedTarget == CheckedStatement.children_[1].value_

CheckedExpression == CheckedStatement.children_[2]

\* The types of the two operands of the expression being checked, under
\* the bindings before the statement.
OperandType(i) ==
    ValueType(CheckedExpression.children_[i], lastcall.type_environment_)

\* The operator typing of the language: the type of the sum or product of
\* two operand types, "none" when the combination is not well typed.
OperatorTyping(operator, type1, type2) ==
    CASE operator = "PLUS" /\ <<type1, type2>> = <<"NUMBER", "NUMBER">>
            -> "NUMBER"
      [] operator = "PLUS" /\ <<type1, type2>> = <<"STRING", "STRING">>
            -> "STRING"
      [] operator = "TIMES" /\ <<type1, type2>> = <<"NUMBER", "NUMBER">>
            -> "NUMBER"
      [] operator = "TIMES" /\ <<type1, type2>> = <<"STRING", "NUMBER">>
            -> "STRING"
      [] operator = "TIMES" /\ <<type1, type2>> = <<"NUMBER", "STRING">>
            -> "STRING"
      [] OTHER -> "none"

\* A step that checks the assignment of a sum or product: a combination
\* that is not well typed sets has_bug; a well typed one sets nothing, and
\* binds a target that was unbound to the type of the result.
OperatorStep ==
    (/\ lastcall.op = "TypeCheck"
     /\ lastcall'.checked = lastcall.checked + 1
     /\ lastcall.ast_ \notin Truncated
     /\ CheckedExpression.type_ \in {"PLUS", "TIMES"})
    => LET result == OperatorTyping(CheckedExpression.type_,
                                    OperandType(1), OperandType(2))
           unbound == GetType(lastcall.type_environment_, CheckedTarget)
                          = "UNDEFINED"
       IN  IF result = "none" THEN lastcall'.has_bug
           ELSE unbound =>
                   /\ lastcall'.has_bug = lastcall.has_bug
                   /\ GetType(lastcall'.type_environment_, CheckedTarget)
                          = result

\* C31: Plus is well typed only for NUMBER+NUMBER, giving NUMBER, and
\* STRING+STRING, giving STRING; Times only for NUMBER*NUMBER, giving
\* NUMBER, and for STRING*NUMBER and NUMBER*STRING, giving STRING; every
\* other combination of operand types makes type checking fail.
C31_OperatorTyping == [][OperatorStep]_vars

\* CheckType has thrown for a program that binds a to the product of a
\* string and a number and then assigns the product of a with a string.
C31_Witness ==
    /\ lastcall.op = "CheckType"
    /\ lastcall.thrown
    /\ lastcall.ast_ =
           Root(<<Assign(<<"a">>, Times(Leaf("STRING", <<"\"", "s", "\"">>),
                                        Leaf("NUMBER", <<"1">>))),
                  Assign(<<"b">>, Times(Id(<<"a">>),
                                        Leaf("STRING", <<"\"", "s", "\"">>)))>>)
    /\ GetType(lastcall.type_environment_, <<"a">>) = "STRING"
    /\ GetType(lastcall.type_environment_, <<"b">>) = "UNDEFINED"

(***************************************************************************)
(* The tokens the parsers leave unmatched                                  *)
(***************************************************************************)

\* LL1Parser holds a token that it pulled from the lexer as lookahead and
\* has not matched against a terminal.
LookaheadUnmatched ==
    ~ll1.token_consumed /\ ll1.current_token.type_ # "END_OF_FILE"

\* C32: LL(1) Parse succeeds only if every token of the input has been
\* matched against a terminal: it returns no AST if, when the stack is
\* down to the end marker, the lexer still has input or a token pulled as
\* lookahead has not been matched.
C32_LL1ConsumesAll ==
    (ll1.pc = "done" /\ ~ll1.result.is_null)
    => ~HasNext(ll1.lexer_) /\ ~LookaheadUnmatched

\* LL1Parser has returned an AST with a statement in it while the token it
\* pulled after the statement is unmatched.
C32_Witness ==
    /\ ll1.pc = "done"
    /\ ~ll1.result.is_null
    /\ ll1.result.root_.children_ # <<>>
    /\ LookaheadUnmatched
    /\ ~HasNext(ll1.lexer_)

(***************************************************************************)
(* The leaves of the AST                                                   *)
(***************************************************************************)

\* The tokens are those of statements that each assign one identifier or
\* number: identifier, assign, operand, semicolon.
SingleOperands(toks) ==
    /\ toks # <<>>
    /\ Len(toks) % 4 = 0
    /\ \A i \in 1..Len(toks) :
          toks[i].type_ \in
              CASE i % 4 = 1 -> {"IDENTIFIER"}
                [] i % 4 = 2 -> {"ASSIGN"}
                [] i % 4 = 3 -> {"IDENTIFIER", "NUMBER"}
                [] OTHER -> {"SEMICOLON"}

\* The AST of such statements: each operand a leaf of the kind of its
\* token with the lexeme of the token as value.
LeafProgram(toks) ==
    Root([i \in 1..(Len(toks) \div 4) |->
             Assign(toks[4 * i - 3].value_,
                    Leaf(toks[4 * i - 1].type_, toks[4 * i - 1].value_))])

\* C33: the AST leaf built for a Factor that matched a single terminal has
\* the kind of the matched token and the lexeme of the token as value, for
\* every lexeme of the kind, identifiers that begin with an underscore or
\* spell a grammar symbol included.
C33_FactorLeaf ==
    \A p \in {ll1, slr} :
        (BothDone /\ p.pc = "done" /\ SingleOperands(TokensOf(Text))
            /\ LexicallyClean(SetInput(NewLexer, Text)))
        => /\ ~p.result.is_null
           /\ p.result.root_ = LeafProgram(TokensOf(Text))

\* The same for operands that begin with a letter or a digit and do not
\* spell Expression.
C33_PlainFactorLeaf ==
    \A p \in {ll1, slr} :
        (/\ BothDone /\ p.pc = "done" /\ SingleOperands(TokensOf(Text))
         /\ LexicallyClean(SetInput(NewLexer, Text))
         /\ \A i \in 1..Len(TokensOf(Text)) :
               i % 4 = 3 => /\ TokensOf(Text)[i].value_[1] # "_"
                            /\ TokensOf(Text)[i].value_ # Sym.Expression)
        => /\ ~p.result.is_null
           /\ p.result.root_ = LeafProgram(TokensOf(Text))

\* Both parsers have returned an AST for a statement that assigns an
\* identifier beginning with an underscore, and the statement has no leaf
\* for it in either AST.
C33_Witness ==
    /\ BothDone
    /\ SingleOperands(TokensOf(Text))
    /\ LexicallyClean(SetInput(NewLexer, Text))
    /\ TokensOf(Text)[3].value_[1] = "_"
    /\ \A p \in {ll1, slr} :
          /\ ~p.result.is_null
          /\ Len(p.result.root_.children_[1].children_) = 1

(***************************************************************************)
(* The stack of the SLR parser                                             *)
(***************************************************************************)

\* The action SLRParser::Parse is about to take: on the token it holds, or
\* on the end marker when the lexer has no next token; none when the table
\* has no entry.
PendingAction ==
    LET state == slr.slr_stack_[Len(slr.slr_stack_)][3]
        symbol == IF slr.pc = "inner" THEN slr.token_value ELSE END_NODE_VALUE
    IN  IF /\ \/ slr.pc = "inner"
              \/ slr.pc = "top" /\ ~HasNext(slr.lexer_)
           /\ state \in DOMAIN action_table_
           /\ symbol \in DOMAIN action_table_[state]
        THEN action_table_[state][symbol]
        ELSE Action("NONE", 0, <<>>, <<>>)

\* The entries of the stack above the seed entry of state 0.
AboveSeed == Len(slr.slr_stack_) - 1

\* C34: during any SLR Parse on a fresh parser the stack is never empty
\* when its top is read: the seed entry of state 0 stays at the bottom,
\* and every Reduce finds at least as many entries above it as the
\* right-hand side of the production has symbols.
C34_SeedNeverPopped ==
    slr.pc \in {"idle", "top", "inner", "done", "crashed"} =>
        /\ slr.slr_stack_ # <<>>
        /\ slr.slr_stack_[1] = <<ROOT_NODE_VALUE, 0, 0>>
        /\ PendingAction.type_ = "REDUCE"
              => Len(PendingAction.rhs_) <= AboveSeed

\* Parse is about to reduce by a production of two or more symbols with
\* exactly as many entries above the seed entry.
C34_Witness ==
    /\ slr.pc \in {"top", "inner"}
    /\ PendingAction.type_ = "REDUCE"
    /\ Len(PendingAction.rhs_) >= 2
    /\ Len(PendingAction.rhs_) = AboveSeed

(***************************************************************************)
(* HasNext and the Next that follows it                                    *)
(***************************************************************************)

\* C35: whenever HasNext() returns true, the Next() that follows at once
\* returns a token, not none.
C35_HasNextPromisesToken ==
    (lastcall.op = "Next" /\ HasNext(lastcall.pre)) => lastcall.ret

\* Next() has returned none where HasNext() was true, and reading on gives
\* a token.
C35_Witness ==
    /\ lastcall.op = "Next"
    /\ HasNext(lastcall.pre)
    /\ ~lastcall.ret
    /\ HasNext(lexer)
    /\ LexNext(lexer).has_value

(***************************************************************************)
(* The automata that have failed in a token attempt                        *)
(***************************************************************************)

\* The automata of the list of the attempt that are marked not alive.
NotAlive == {i \in DOMAIN lexer.survival_list_ : ~lexer.survival_list_[i]}

\* A pass of the loop over the automata leaves every automaton that was
\* not alive as it was: not alive, in the state it failed in, and not the
\* one recorded as accepted by this pass.
FailedStayOut ==
    lastcall'.op = "Evaluate" =>
        \A i \in NotAlive :
            /\ ~lexer'.survival_list_[i]
            /\ lexer'.dfa_state_[i] = lexer.dfa_state_[i]
            /\ lastcall'.last_accepted_dfa = i
                  => /\ lastcall.last_accepted_dfa = i
                     /\ lastcall'.last_accepted_pos = lastcall.last_accepted_pos

\* C36: within one token attempt the tokenizer never calls Evaluate on an
\* automaton that has already failed in that attempt: an automaton marked
\* not alive stays not alive, and in the state it failed in, until the next
\* attempt initialises all automata again.
C36_FailedNotEvaluated == [][FailedStayOut]_vars

\* The second character of an attempt has been evaluated by an automaton
\* that is still alive while another automaton, which failed on the first
\* character and would accept the second, is not alive.
C36_Witness ==
    /\ lastcall.op = "Evaluate"
    /\ lexer.current_pos_ = 2
    /\ \E i \in NotAlive :
          /\ ~RunDfa(DfaInit(lastcall.list[i + 1]),
                     SubSeq(lexer.input_, 1, 1)).alive
          /\ Evaluate(DfaInit(lastcall.list[i + 1]), lexer.input_[2]).ret
    /\ \E j \in DOMAIN lexer.survival_list_ : lexer.survival_list_[j]

(***************************************************************************)
(* The scan position and the end of the text                               *)
(***************************************************************************)

\* C37: at every point of any sequence of SetInput, Next, HasNext, Reset
\* and Tokenize calls the scan position is at least 0 and at most the
\* length of the input; the index whose character a failed attempt reads
\* to update line and column, one less than the position it leaves, is
\* then an index of the input.
C37_PositionWithinInput ==
    /\ lexer.current_pos_ >= 0
    /\ lexer.current_pos_ <= Len(lexer.input_)
    /\ (lastcall.op = "Next" /\ HasNext(lastcall.pre) /\ ~lastcall.ret)
          => lexer.current_pos_ - 1 < Len(lexer.input_)

\* A token attempt that started at the last character of the text has
\* failed.
C37_Witness ==
    /\ lastcall.op = "Next"
    /\ HasNext(lastcall.pre)
    /\ ~lastcall.ret
    /\ TokenStart(lastcall.pre) = Len(lexer.input_) - 1

(***************************************************************************)
(* The tokens as slices of the text                                        *)
(***************************************************************************)

\* The characters a failed attempt has passed over after the one it
\* reports, as indices of the text.
PassedUnreported ==
    {k \in 1..Len(lexer.input_) :
        /\ k > TokenStart(lastcall.pre) + 1
        /\ k <= lexer.current_pos_}

\* A token returned by Next() is the slice of the text from where the
\* attempt started, after the whitespace, to the scan position, and is not
\* empty.
TokenIsSlice ==
    (lastcall.op = "Next" /\ lastcall.ret)
    => /\ TokenStart(lastcall.pre) >= lastcall.pre.current_pos_
       /\ TokenStart(lastcall.pre) < lexer.current_pos_
       /\ lexer.current_pos_ <= Len(lexer.input_)
       /\ lastcall.token.value_
             = SubSeq(lexer.input_, TokenStart(lastcall.pre) + 1,
                      lexer.current_pos_)

\* C38: the tokens returned by successive Next() calls are non-empty slices
\* of the text in increasing offset order, each starting at or after the
\* end of the one before, and between two tokens lie only whitespace and
\* characters reported as lexical errors: a call that returns a token
\* passes over whitespace and the token, a call that returns none passes
\* over whitespace and the character it reports.
C38_TokensPartitionInput ==
    /\ TokenIsSlice
    /\ (lastcall.op = "Next" /\ HasNext(lastcall.pre) /\ ~lastcall.ret)
          => \A k \in PassedUnreported : IsWhitespace(lexer.input_[k])

\* Next() has returned none and has passed over a character that is not
\* whitespace after the one it reports, and more of the text is left.
C38_Witness ==
    /\ lastcall.op = "Next"
    /\ HasNext(lastcall.pre)
    /\ ~lastcall.ret
    /\ PassedUnreported # {}
    /\ HasNext(lexer)

\* The statements that assign the output stream: their expression is the
\* reserved identifier stdout.
AssignsOutputStream ==
    {i \in DOMAIN lastcall.ast_.children_ :
        /\ lastcall.ast_ \notin Truncated
        /\ ExpressionOf(i) = Id(STDOUT)}

\* C39: an assignment whose right-hand side is the output stream, the
\* reserved identifier stdout, makes type checking fail, whether or not the
\* variable on its left has been assigned before, and no variable is ever
\* bound to the output-stream type.
C39_OutputStreamNotAssignable ==
    (lastcall.op = "CheckType" /\ AssignsOutputStream # {})
    => /\ lastcall.thrown
       /\ \A name \in Variables :
             GetType(lastcall.type_environment_, name) # "OUT_STREAM"

\* CheckType has returned for a program of one statement, which assigns
\* stdout to a variable.
C39_Witness ==
    /\ lastcall.op = "CheckType"
    /\ Len(lastcall.ast_.children_) = 1
    /\ AssignsOutputStream = {1}
    /\ AssignedBy(1) \in Variables

====
